---- MODULE Spec2Model ----
(***************************************************************************)
(* A model of the GitHub-MCP / TNOS-MCP bridge                             *)
(* (src/internal/bridge/github_mcp_bridge.py).                             *)
(*                                                                         *)
(* Thirteen specifications share the module:                               *)
(*   Spec    the bridge with two sessions (handle_github_request           *)
(*           coroutines) that send well-formed requests, the shared I-side *)
(*           connection, the I-side peer;                                  *)
(*   SpecOne the bridge with one session that sends every kind of message; *)
(*   SpecRL  RateLimiter alone (check_rate_limit, update_limits, time);    *)
(*   SpecV   EnhancedMessageValidator alone (sign_message,                 *)
(*           verify_message, time);                                        *)
(*   SpecStart  start() of several bridge processes on one listen port;    *)
(*   SpecT   the translation of one request to the internal message and of *)
(*           a message back to the external response;                      *)
(*   SpecOneFair  SpecOne's session with the awaits of its handler         *)
(*           completing (weak fairness of the recv outcomes);              *)
(*   SpecAudit  RateLimiter's record of denied requests over a run longer  *)
(*           than the alert window;                                        *)
(*   SpecServer  MCPServer.handle_client and its handlers                  *)
(*           (src/internal/server/mcp_server.py);                          *)
(*   SpecCompression  MobiusCompression.compress and decompress            *)
(*           (src/internal/bridge/mobius_compression.py);                  *)
(*   SpecSign  sign_message followed by verify_message of its result;      *)
(*   SpecNeg  connect_to_tnos_mcp alone, with a peer that may select any   *)
(*           protocol version;                                             *)
(*   SpecVN  the two version negotiations, MCPServer's handler and         *)
(*           VersionManager.negotiate_version, on the same inputs.         *)
(***************************************************************************)
EXTENDS Integers, Sequences, FiniteSets, TLC

\* ------------------------------------------------------------------ bounds
\* Messages the sessions send in one run of Spec (two sessions).
MaxReq == 2
\* Messages the session sends in one run of SpecOne (one session).
MaxReqOne == 3
\* Messages the session sends in one run of SpecOneFair.
MaxReqFair == 2
\* I-side connections opened in one run (connect_to_tnos_mcp successes).
MaxConn == 2
\* Failed connects in a row in one run of SpecNeg.
MaxAttempts == 3
\* The clock of SpecRL and SpecT stops here (seconds).
MaxTime == 60
\* One step of that clock (seconds).
TickStep == 30
\* global_limit as the model starts it (100 in RateLimiter.__init__).
GlobalLimit == 2
\* Limit of the one tool with a configured limit (5 for run_in_terminal).
ToolLimit == 2
\* Largest limit update_limits is given.
MaxLimit == 2
\* Calls of check_rate_limit in one run of SpecRL.
MaxCalls == 2

\* Calls of verify_message in one run of SpecV.
MaxFrames == 4
\* The replay table's length (deque maxlen, 1000 in the source).
ReplayCap == 2
\* Exceeded attempts of one key that raise the security alert (5 in
\* RateLimiter._track_exceeded_attempt).
AlertThreshold == 2
\* Calls of check_rate_limit in one run of SpecAudit.
MaxCallsAudit == 5
\* The clock of SpecAudit stops here, and one step of it (seconds).
MaxTimeAudit == 450
TickStepAudit == 150
\* MCPContext objects the server creates in one run of SpecServer.
MaxObjects == 4
\* Calls of compress in one run of SpecCompression.
MaxCompressions == 2
\* Messages the server handles in one run of SpecServer.
MaxServerMessages == 2
\* The clock of SpecV stops here (seconds).
MaxTimeV == 400
\* One step of that clock (seconds).
TickStepV == 200

\* ------------------------------------------------------- program constants
\* RateLimiter.window
Window == 60
\* verify_message: a frame older than this many seconds has expired
MaxAge == 300
\* The span in which exceeded attempts count for the alert (seconds).
AlertWindow == 300

\* --------------------------------------------------------------- the inputs
Sessions == {"s1", "s2"}

\* The bridge processes started with the same listen port.
Instances == {"b1", "b2", "b3"}

\* Tool names a request can carry: a key of tool_mapping, a name with the
\* tnos_ prefix (no key of tool_mapping), a name that is neither.
ToolNames == {"get_issue", "tnos_compression", "bogus_tool"}

\* The tools RateLimiter.__init__ configures a limit for (one stands for the
\* ten of the source; none of them is a key of tool_mapping).
ConfiguredTools == {"run_in_terminal"}

\* What a session can send as one message:
\*   bad_json   text json.loads rejects
\*   not_dict   JSON that is no object (a list, a number)
\*   no_name    an object that misses a required field or has it of the
\*              wrong type
\*   injection  a well-formed object whose text matches an injection pattern
\*   ok         a well-formed object that matches none, with its tool name
Messages ==
  {[shape |-> sh, name |-> ""] : sh \in {"bad_json", "not_dict", "no_name"}}
  \cup {[shape |-> "injection", name |-> "get_issue"]}
  \cup {[shape |-> "ok", name |-> n] : n \in ToolNames \cup ConfiguredTools}

\* A field of meta that is not there: no message id, no timestamp, no
\* signature.
NoId == 0
NoTimestamp == -1
NoSignature == <<>>
\* A frame without a meta block.
NoMeta == [message_id |-> NoId, timestamp |-> NoTimestamp,
           signature |-> NoSignature]

NoReq == [id |-> 0, name |-> "", shape |-> "", path |-> "", conn |-> 0]
\* No context.
NoContext == [who |-> "", what |-> "", when |-> NoTimestamp, where |-> ""]
\* No protocol version (None).
NoVersion == ""
NoFrame == [kind |-> "none", req |-> 0, what |-> "", meta |-> NoMeta,
            conn |-> 0, mcp_version |-> NoVersion, supported |-> {},
            preferred |-> NoVersion]
NoReply == [kind |-> "none", errorType |-> "", recoverable |-> FALSE,
            for |-> 0, re |-> 0, late |-> FALSE, suggestions |-> {},
            meta |-> NoMeta, quota |-> <<>>, result |-> "",
            mcp_version |-> NoVersion]

\* ------------------------------------------------------------------- state
VARIABLES
  pc,                 \* where each session's handle_github_request is
  github_clients,     \* GitHubTNOSBridge.github_clients
  tnos_ws_connection, \* 0 is None, else the connection object (its number)
  tnos_connected,     \* connection_state["tnos"]["connected"]
  reconnect_attempts, \* connection_state["tnos"]["reconnect_attempts"]
  last_error,         \* connection_state["tnos"]["last_error"]
  current_version,    \* GitHubTNOSBridge.current_version
  server_version,     \* what the last negotiation read as selected_version
  connOpen,           \* the connection objects that are open
  nConn,              \* connection objects created so far
  cur,                \* each session's github_request (the handler's local)
  inbox,              \* frames of the peer the bridge has not read yet
  peerPending,        \* frames the peer holds unanswered (0: the negotiation)
  timedOut,           \* those of them whose request has timed out
  lastOut,            \* the last frame sent to each session
  lastWire,           \* the last frame sent on the I-side
  wireKinds,          \* the kinds of frame sent on the current connection
  nextReq,            \* messages received so far
  received,           \* well-formed requests received, per tool with a limit
  rl,                 \* the RateLimiter object
  now,                \* time.time(), seconds
  rlLast,             \* the last check_rate_limit call of SpecRL
  message_ids,        \* EnhancedMessageValidator.message_ids
  vLast,              \* the last verify_message call of SpecV
  inboundIds,         \* the message ids of the last ReplayCap inbound frames
  sg_message,         \* the dictionary given to sign_message
  sg_signed,          \* what sign_message returned, until it is verified
  startPc,            \* where each bridge process is in start()
  listeners,          \* the bridge processes bound to the listen port
  otherListener,      \* another program listens on the listen port
  tpc,                \* where the translation of one request is
  github_request,     \* the request under translation
  tnos_message,       \* the MCPMessage built from it
  tnos_response,      \* the MCPMessage parsed from the peer's answer
  github_response,    \* translate_tnos_to_github_response's result
  heap,               \* the MCPContext objects of the server, by identity
  session_contexts,   \* MCPServer.session_contexts: session -> object
  nObj,               \* MCPContext objects created so far
  srvLast,            \* the last message MCPServer.handle_client handled
  vnLast,             \* the last version negotiation: its inputs and results
  clients,            \* MCPServer.clients
  srvOpen,            \* the server's connections the network holds open
  mc_pc,              \* where the round trip through MobiusCompression is
  mc_stats,           \* MobiusCompression._stats (its counters)
  mc_data,            \* the value given to compress
  mc_compressed,      \* what compress returned
  mc_decompressed     \* what decompress returned

vars == <<pc, github_clients, tnos_ws_connection, tnos_connected,
          reconnect_attempts, last_error, current_version, server_version,
          connOpen,
          nConn, cur, inbox, peerPending, timedOut, lastOut, lastWire,
          wireKinds, nextReq, received, rl, now, rlLast, message_ids, vLast,
          inboundIds, sg_message, sg_signed, startPc, listeners, otherListener, tpc,
          github_request, tnos_message, tnos_response, github_response,
          heap, session_contexts, nObj, srvLast, vnLast, clients, srvOpen,
          mc_pc, mc_stats, mc_data,
          mc_compressed, mc_decompressed>>

serverVars == <<heap, session_contexts, nObj, srvLast, vnLast, clients,
                srvOpen>>

compressionVars == <<mc_pc, mc_stats, mc_data, mc_compressed,
                     mc_decompressed>>

startVars == <<startPc, listeners, otherListener>>

translatorVars == <<tpc, github_request, tnos_message, tnos_response,
                    github_response>>

validatorVars == <<message_ids, vLast, inboundIds, sg_message, sg_signed>>

bridgeVars == <<pc, github_clients, tnos_ws_connection, tnos_connected,
                reconnect_attempts, last_error, current_version,
                server_version,
                connOpen, nConn, cur, inbox, peerPending, timedOut, lastOut,
                lastWire, wireKinds, nextReq, received>>

\* ---------------------------------------------------------------- versions
\* VersionManager.SUPPORTED_VERSIONS (two of them stand for the five).
SUPPORTED_VERSIONS == {"2.0", "3.0"}

\* VersionManager.get_latest_version()
get_latest_version == "3.0"

\* ------------------------------------------------------------ tool mapping
\* GitHubTNOSBridge._build_tool_mapping: tool name -> TNOS capability (one key
\* of each kind stands for the twelve of the source).
tool_mapping == [n \in {"get_issue"} |-> "task_management_operation"]

\* tool_name.startswith("tnos_")
StartsWithTnos(name) == name \in {"tnos_compression"}

\* A test that rejects no tool.
Unsupported_never(name) == FALSE

\* The test of handle_github_request that rejects a tool as unsupported.
Unsupported(name) == ~StartsWithTnos(name) /\ name \notin DOMAIN tool_mapping

\* translate_github_to_tnos_context: the 7D context's who, what and when.
translate_github_to_tnos_context(name, t) ==
  [who |-> "GitHub Copilot",
   what |-> IF name \in DOMAIN tool_mapping THEN tool_mapping[name]
            ELSE "unknown_operation",
   when |-> t]

\* ---------------------------------------------------------------- validator
\* A validator that accepts every parsed message.
validate_accepts_all(shape) == TRUE

\* EnhancedMessageValidator.validate_github_request on a parsed message: TRUE
\* when the request is valid.
validate_github_request(shape) ==
  CASE shape = "not_dict"  -> FALSE  \* "Request must be a dictionary"
    [] shape = "no_name"   -> FALSE  \* a required field missing or mistyped
    [] shape = "injection" -> FALSE  \* scan_for_security_threats
    [] OTHER               -> TRUE

\* hmac.new(key, json.dumps(message, sort_keys=True)).hexdigest() of a message
\* with this body, message id and timestamp: the digest stands for its input
\* (no two inputs share one).
hmac_digest(body, id, ts) == <<body, id, ts>>

\* EnhancedMessageValidator.sign_message of a dictionary with this body, when
\* uuid.uuid4() gives id and time.time() gives t.
sign_message(body, id, t) ==
  [shape |-> "dict", body |-> body,
   meta |-> [message_id |-> id, timestamp |-> t,
             signature |-> hmac_digest(body, id, t)]]

\* An append to a deque without maxlen.
deque_append_unbounded(d, x, cap) == Append(d, x)

\* The digest sign_message computes for a dictionary whose meta block already
\* holds a signature sig: json.dumps runs before the new signature is stored,
\* so the old one is part of the signed text.
hmac_digest_over_signature(body, id, ts, sig) == <<body, id, ts, sig>>

\* EnhancedMessageValidator.sign_message of the dictionary m, whose meta block
\* is absent (<<>>) or present (<<meta>>), when uuid.uuid4() gives id and
\* time.time() gives t: message_id and timestamp are set in the copy's meta,
\* the copy is serialised and digested, the digest is stored as signature.
sign_message_dict(m, id, t) ==
  LET old == IF m.meta = <<>> THEN NoSignature ELSE m.meta[1].signature
  IN  IF old = NoSignature
      THEN sign_message(m.body, id, t)
      ELSE [sign_message(m.body, id, t) EXCEPT
              !.meta.signature =
                 hmac_digest_over_signature(m.body, id, t, old)]

\* deque.append on a deque of maxlen cap: the oldest entry leaves a full one.
deque_append(d, x, cap) ==
  IF Len(d) >= cap THEN Append(Tail(d), x) ELSE Append(d, x)

\* A membership test that finds nothing.
deque_has_never(d, x) == FALSE

\* x in deque
deque_has(d, x) == \E i \in 1..Len(d) : d[i] = x

\* A verify_message without the freshness test.
verify_message_no_expiry(ids, f, t) ==
  CASE f.shape = "not_dict" ->
         [ok |-> FALSE, reason |-> "Message is not a dictionary", ids |-> ids]
    [] f.shape = "no_meta" ->
         [ok |-> FALSE, reason |-> "Missing meta information", ids |-> ids]
    [] f.meta.message_id = NoId ->
         [ok |-> FALSE, reason |-> "Missing message ID", ids |-> ids]
    [] f.meta.timestamp = NoTimestamp ->
         [ok |-> FALSE, reason |-> "Missing timestamp", ids |-> ids]
    [] f.meta.signature = NoSignature ->
         [ok |-> FALSE, reason |-> "Missing signature", ids |-> ids]
    [] deque_has(ids, f.meta.message_id) ->
         [ok |-> FALSE, reason |-> "Message replay detected", ids |-> ids]
    [] OTHER ->
         LET ids1 == deque_append(ids, f.meta.message_id, ReplayCap)
         IN  IF f.meta.signature
                  # hmac_digest(f.body, f.meta.message_id, f.meta.timestamp)
             THEN [ok |-> FALSE, reason |-> "Invalid signature", ids |-> ids1]
             ELSE [ok |-> TRUE, reason |-> "Message verified", ids |-> ids1]

\* EnhancedMessageValidator.verify_message of frame f at time t with the
\* replay table ids: the verdict, its reason and the table afterwards.  The
\* message id enters the table before the signature is verified.
verify_message(ids, f, t) ==
  CASE f.shape = "not_dict" ->
         [ok |-> FALSE, reason |-> "Message is not a dictionary", ids |-> ids]
    [] f.shape = "no_meta" ->
         [ok |-> FALSE, reason |-> "Missing meta information", ids |-> ids]
    [] f.meta.message_id = NoId ->
         [ok |-> FALSE, reason |-> "Missing message ID", ids |-> ids]
    [] f.meta.timestamp = NoTimestamp ->
         [ok |-> FALSE, reason |-> "Missing timestamp", ids |-> ids]
    [] f.meta.signature = NoSignature ->
         [ok |-> FALSE, reason |-> "Missing signature", ids |-> ids]
    [] t - f.meta.timestamp > MaxAge ->
         [ok |-> FALSE, reason |-> "Message expired", ids |-> ids]
    [] deque_has(ids, f.meta.message_id) ->
         [ok |-> FALSE, reason |-> "Message replay detected", ids |-> ids]
    [] OTHER ->
         LET ids1 == deque_append(ids, f.meta.message_id, ReplayCap)
         IN  IF f.meta.signature
                  # hmac_digest(f.body, f.meta.message_id, f.meta.timestamp)
             THEN [ok |-> FALSE, reason |-> "Invalid signature", ids |-> ids1]
             ELSE [ok |-> TRUE, reason |-> "Message verified", ids |-> ids1]

\* ------------------------------------------------------------- rate limiter
\* RateLimiter.__init__ with the limits lim.
RateLimiterInit(glim, tlim) ==
  [global_limit |-> glim,
   tool_limits |-> [t \in ConfiguredTools |-> tlim],
   global_requests |-> <<>>,
   tool_requests |-> [t \in ConfiguredTools |-> <<>>],
   exceeded_attempts |-> <<>>]

\* RateLimiter._clean_old_requests
_clean_old_requests(list, t) ==
  SelectSeq(list, LAMBDA req_time : t - req_time < Window)

\* A limiter that looks at the global bucket alone.
check_rate_limit_global_only(r, tool, t) ==
  LET g == _clean_old_requests(r.global_requests, t)
  IN  IF Len(g) >= r.global_limit
      THEN [allowed |-> FALSE, rl |-> [r EXCEPT !.global_requests = g],
            exceeded |-> <<"global">>, alert |-> FALSE]
      ELSE [allowed |-> TRUE,
            rl |-> [r EXCEPT !.global_requests = Append(g, t)],
            exceeded |-> <<>>, alert |-> FALSE]

\* An audit that records the attempt and never raises the alert.
track_without_alert(r, limit_type, tool, t) ==
  [rl |-> [r EXCEPT !.exceeded_attempts =
                      Append(r.exceeded_attempts,
                             [key |-> <<limit_type, tool>>, at |-> t])],
   alert |-> FALSE]

\* RateLimiter._track_exceeded_attempt(limit_type, tool_name) at time t on
\* the object r: the object afterwards and whether the security alert is
\* logged.  exceeded_attempts is the dictionary of lists as one list of
\* (key, time) entries in the order they were appended; nothing removes an
\* entry.
_track_exceeded_attempt(r, limit_type, tool, t) ==
  LET key == <<limit_type, tool>>
      attempts == Append(r.exceeded_attempts, [key |-> key, at |-> t])
      recent_attempts ==
        SelectSeq(attempts,
                  LAMBDA e : e.key = key /\ t - e.at < AlertWindow)
  IN  [rl |-> [r EXCEPT !.exceeded_attempts = attempts],
       alert |-> Len(recent_attempts) >= AlertThreshold]

\* A limiter that records the request it denies on the global limit.
check_rate_limit_charging(r, tool, t) ==
  LET g == _clean_old_requests(r.global_requests, t)
      r1 == [r EXCEPT !.global_requests = g]
  IN  IF Len(g) >= r.global_limit
      THEN [allowed |-> FALSE,
            rl |-> [r1 EXCEPT !.global_requests = Append(g, t)],
            exceeded |-> <<"global">>, alert |-> FALSE]
      ELSE IF tool \in DOMAIN r.tool_requests
      THEN LET tr == _clean_old_requests(r.tool_requests[tool], t)
               r2 == [r1 EXCEPT !.tool_requests[tool] = tr]
           IN  IF tool \in DOMAIN r.tool_limits
                  /\ Len(tr) >= r.tool_limits[tool]
               THEN [allowed |-> FALSE, rl |-> r2,
                     exceeded |-> <<tool>>, alert |-> FALSE]
               ELSE [allowed |-> TRUE,
                     rl |-> [r2 EXCEPT !.global_requests = Append(g, t),
                                       !.tool_requests[tool] = Append(tr, t)],
                     exceeded |-> <<>>, alert |-> FALSE]
      ELSE [allowed |-> TRUE,
            rl |-> [r1 EXCEPT !.global_requests = Append(g, t)],
            exceeded |-> <<>>, alert |-> FALSE]

\* RateLimiter.check_rate_limit(tool) at time t on the object r: the result
\* and the object afterwards.
check_rate_limit(r, tool, t) ==
  LET g == _clean_old_requests(r.global_requests, t)
      r1 == [r EXCEPT !.global_requests = g]
  IN  IF Len(g) >= r.global_limit
      THEN [allowed |-> FALSE,
            rl |-> _track_exceeded_attempt(r1, "global", tool, t).rl,
            exceeded |-> <<"global">>,
            alert |-> _track_exceeded_attempt(r1, "global", tool, t).alert]
      ELSE IF tool \in DOMAIN r.tool_requests
      THEN LET tr == _clean_old_requests(r.tool_requests[tool], t)
               r2 == [r1 EXCEPT !.tool_requests[tool] = tr]
           IN  IF tool \in DOMAIN r.tool_limits
                  /\ Len(tr) >= r.tool_limits[tool]
               THEN [allowed |-> FALSE,
                     rl |-> _track_exceeded_attempt(r2, tool, tool, t).rl,
                     exceeded |-> <<tool>>,
                     alert |->
                       _track_exceeded_attempt(r2, tool, tool, t).alert]
               ELSE [allowed |-> TRUE,
                     rl |-> [r2 EXCEPT !.global_requests = Append(g, t),
                                       !.tool_requests[tool] = Append(tr, t)],
                     exceeded |-> <<>>, alert |-> FALSE]
      ELSE [allowed |-> TRUE,
            rl |-> [r1 EXCEPT !.global_requests = Append(g, t)],
            exceeded |-> <<>>, alert |-> FALSE]

\* RateLimiter.update_limits(global_limit, tool_limits) on the object r; g is
\* None for no new global limit, tl is the dictionary of new tool limits.
None == -1
update_limits(r, g, tl) ==
  LET tools == DOMAIN r.tool_limits \cup DOMAIN tl
  IN  [global_limit |-> IF g # None THEN g ELSE r.global_limit,
       tool_limits |-> [t \in tools |-> IF t \in DOMAIN tl THEN tl[t]
                                        ELSE r.tool_limits[t]],
       global_requests |-> r.global_requests,
       tool_requests |->
         [t \in DOMAIN r.tool_requests \cup DOMAIN tl |->
            IF t \in DOMAIN r.tool_requests THEN r.tool_requests[t]
            ELSE <<>>],
       exceeded_attempts |-> r.exceeded_attempts]

\* min(list)
min(list) ==
  CHOOSE x \in {list[i] : i \in 1..Len(list)} :
    \A j \in 1..Len(list) : x <= list[j]

\* RateLimiter.get_remaining_quota(tool) at time t on the object r: the
\* dictionary it returns (tool_remaining is <<>> for None) and the object
\* afterwards.
get_remaining_quota(r, tool, t) ==
  LET g == _clean_old_requests(r.global_requests, t)
      r1 == [r EXCEPT !.global_requests = g]
      r2 == IF tool \in DOMAIN r.tool_requests
            THEN [r1 EXCEPT !.tool_requests[tool] =
                              _clean_old_requests(r.tool_requests[tool], t)]
            ELSE r1
  IN  [quota |->
         [global_remaining |-> r.global_limit - Len(g),
          tool_remaining |->
            IF tool \in DOMAIN r.tool_limits
            THEN <<r.tool_limits[tool]
                     - (IF tool \in DOMAIN r2.tool_requests
                        THEN Len(r2.tool_requests[tool]) ELSE 0)>>
            ELSE <<>>,
          reset_in_seconds |->
            Window - (IF g # <<>> THEN t - min(g) ELSE 0)],
       rl |-> r2]

\* ------------------------------------------------------------------ frames
\* A frame without remaining-quota fields.
NoQuota == <<>>

\* An error frame whose errorType is general_error whatever the failure.
ErrorFrame_general(etype, rec, r) ==
  [kind |-> "error", errorType |-> "general_error", recoverable |-> rec,
   for |-> r, re |-> 0, late |-> FALSE, suggestions |-> {}, meta |-> NoMeta,
   quota |-> <<>>, result |-> "", mcp_version |-> NoVersion]

\* An error frame handle_github_request sends to a session, for request r.
ErrorFrame(etype, rec, r) ==
  [kind |-> "error", errorType |-> etype, recoverable |-> rec, for |-> r,
   re |-> 0, late |-> FALSE, suggestions |-> {}, meta |-> NoMeta,
   quota |-> NoQuota, result |-> "", mcp_version |-> NoVersion]

\* The unsupported_tool error: its suggestions are tool_mapping's keys (and
\* the tnos_ tools of the configuration, which is empty by default).
UnsupportedFrame(r) ==
  [ErrorFrame("unsupported_tool", TRUE, r) EXCEPT
     !.suggestions = DOMAIN tool_mapping]

\* The rate_limit_exceeded error: it carries get_remaining_quota's result.
RateLimitFrame(r, q) ==
  [ErrorFrame("rate_limit_exceeded", TRUE, r) EXCEPT !.quota = <<q>>]

\* tnos_response.content of the peer's frame f: the error dictionary of an
\* error message, else the result.
Content(f) == IF f.kind = "error" THEN "error_content" ELSE "result_content"

\* translate_tnos_to_github_response of the peer's frame f, sent as the answer
\* to request r: the frame's content becomes the result, whatever the frame's
\* message type.
ResponseFrame(r, f) ==
  [kind |-> "response", errorType |-> "", recoverable |-> FALSE, for |-> r,
   re |-> f.re, late |-> f.late, suggestions |-> {}, meta |-> NoMeta,
   quota |-> NoQuota, result |-> Content(f),
   mcp_version |-> current_version]

\* tnos_message.to_json() for request r on connection c: no meta block; its
\* context's metadata carries the version current when it was translated.
RequestFrame(r, name, t, c) ==
  [kind |-> "request", req |-> r,
   what |-> translate_github_to_tnos_context(name, t).what,
   meta |-> NoMeta, conn |-> c, mcp_version |-> current_version,
   supported |-> {}, preferred |-> NoVersion]

\* json.dumps(negotiation_msg) of _negotiate_protocol_version on connection c.
NegotiationFrame(c) ==
  [kind |-> "version_negotiation", req |-> 0, what |-> "", meta |-> NoMeta,
   conn |-> c, mcp_version |-> NoVersion, supported |-> SUPPORTED_VERSIONS,
   preferred |-> current_version]

\* ------------------------------------------------------------------- Init
Init ==
  /\ pc = [s \in Sessions |-> "new"]
  /\ github_clients = {}
  /\ tnos_ws_connection = 0
  /\ tnos_connected = FALSE
  /\ reconnect_attempts = 0
  /\ last_error = ""
  /\ current_version = get_latest_version
  /\ server_version = NoVersion
  /\ connOpen = {}
  /\ nConn = 0
  /\ cur = [s \in Sessions |-> NoReq]
  /\ inbox = <<>>
  /\ peerPending = {}
  /\ timedOut = {}
  /\ lastOut = [s \in Sessions |-> NoReply]
  /\ lastWire = NoFrame
  /\ wireKinds = {}
  /\ nextReq = 0
  /\ received = [t \in ConfiguredTools |-> 0]
  /\ rl = RateLimiterInit(GlobalLimit, ToolLimit)
  /\ now = 0
  /\ rlLast = [n |-> 0, tool |-> "", allowed |-> FALSE, before |-> rl,
               at |-> 0, exceeded |-> <<>>, alert |-> FALSE]
  /\ message_ids = <<>>
  /\ vLast = [n |-> 0, frame |-> [shape |-> "no_meta"], ok |-> FALSE,
              reason |-> "", before |-> <<>>, at |-> 0]
  /\ inboundIds = <<>>
  /\ sg_message = [body |-> "", meta |-> <<>>]
  /\ sg_signed = <<>>
  /\ startPc = [i \in Instances |-> "init"]
  /\ listeners = {}
  /\ otherListener = FALSE
  /\ tpc = "idle"
  /\ github_request = <<>>
  /\ tnos_message = <<>>
  /\ tnos_response = <<>>
  /\ github_response = <<>>
  /\ heap = <<>>
  /\ session_contexts = <<>>
  /\ nObj = 0
  /\ srvLast = [n |-> 0, session |-> "", message_type |-> "",
                message_context |-> 0, response_context |-> 0,
                before |-> NoContext, after |-> NoContext,
                stored |-> NoContext, data_id |-> <<>>, replies |-> <<>>]
  /\ clients = {}
  /\ srvOpen = {}
  /\ mc_pc = "idle"
  /\ mc_stats = [compressions |-> 0, decompressions |-> 0, errors |-> 0]
  /\ mc_data = <<>>
  /\ mc_compressed = <<>>
  /\ mc_decompressed = <<>>
  /\ vnLast = [n |-> 0, client_versions |-> {}, preferred_version |-> <<>>,
               selected_version |-> "", negotiate_version |-> ""]

\* ----------------------------------------------------- connect_to_tnos_mcp
\* The outcomes of one call: the port probe fails ("port_down": returns False,
\* the state untouched but for last_error), websockets.connect raises
\* ("ws_fail": connected := False), or the connection opens.  After it opens
\* _negotiate_protocol_version sends its frame and reads the peer's answer
\* ("ok") or gives up after 5 s ("neg_timeout": the answer may come later);
\* either way connect_to_tnos_mcp returns True.
ConnectOutcomes == {"port_down", "ws_fail", "ok", "ok_absent", "neg_timeout"}

\* A handler that takes every reconnect for a success.
ConnectAlwaysSucceeds(o) == o \in ConnectOutcomes

ConnectSucceeds(o) == o \in {"ok", "ok_absent", "neg_timeout", "ok_unknown"}

\* The selected_version of the answer _negotiate_protocol_version reads: an
\* older version ("ok"), none ("ok_absent"), and no answer at all within 5 s;
\* a version the bridge does not know ("ok_unknown").
SelectedVersion(o) ==
  IF o = "ok" THEN "2.0" ELSE IF o = "ok_unknown" THEN "9.0" ELSE NoVersion

\* A negotiation that never takes the peer's version.
negotiate_keeps_version(v, o) == v

\* _negotiate_protocol_version: current_version after the negotiation, v
\* before it.
_negotiate_protocol_version(v, o) ==
  IF SelectedVersion(o) # NoVersion THEN SelectedVersion(o) ELSE v

\* What the peer still owes after the negotiation: its late answer.
NegotiationPending(o) == IF o = "neg_timeout" THEN {0} ELSE {}

\* A connect that leaves reconnect_attempts as it is when the connection
\* opens.
connect_keeps_attempts(o) ==
  CASE o = "port_down" ->
         /\ last_error' = "not_available"
         /\ UNCHANGED <<tnos_ws_connection, tnos_connected,
                        reconnect_attempts, connOpen, nConn, inbox, timedOut,
                        current_version, server_version>>
    [] o = "ws_fail" ->
         /\ tnos_connected' = FALSE
         /\ last_error' = "exception"
         /\ reconnect_attempts' = reconnect_attempts + 1
         /\ UNCHANGED <<tnos_ws_connection, connOpen, nConn, inbox, timedOut,
                        current_version, server_version>>
    [] OTHER ->
         /\ nConn < MaxConn
         /\ server_version' = SelectedVersion(o)
         /\ current_version' = _negotiate_protocol_version(current_version, o)
         /\ UNCHANGED <<reconnect_attempts, last_error, current_version,
                 server_version>>
         /\ nConn' = nConn + 1
         /\ tnos_ws_connection' = nConn + 1
         /\ tnos_connected' = TRUE
         /\ connOpen' = connOpen \cup {nConn + 1}
         /\ inbox' = <<>>
         /\ timedOut' = {}

\* The bridge's connection state after a call with outcome o.  On a new
\* connection the only frame sent so far is the version negotiation.
connect_to_tnos_mcp(o) ==
  CASE o = "port_down" ->
         /\ last_error' = "not_available"
         /\ UNCHANGED <<tnos_ws_connection, tnos_connected,
                        reconnect_attempts, connOpen, nConn, inbox, timedOut,
                        current_version, server_version>>
    [] o = "ws_fail" ->
         /\ tnos_connected' = FALSE
         /\ last_error' = "exception"
         /\ reconnect_attempts' = reconnect_attempts + 1
         /\ UNCHANGED <<tnos_ws_connection, connOpen, nConn, inbox, timedOut,
                        current_version, server_version>>
    [] OTHER ->
         /\ nConn < MaxConn
         /\ server_version' = SelectedVersion(o)
         /\ current_version' = _negotiate_protocol_version(current_version, o)
         /\ reconnect_attempts' = 0
         /\ UNCHANGED last_error
         /\ nConn' = nConn + 1
         /\ tnos_ws_connection' = nConn + 1
         /\ tnos_connected' = TRUE
         /\ connOpen' = connOpen \cup {nConn + 1}
         /\ inbox' = <<>>
         /\ timedOut' = {}

\* --------------------------------------------------- handle_github_request
\* A client connects: the handler adds it and, when the bridge holds no
\* I-side connection, connects first; a failed connect is answered with a
\* connection_failure error and the handler returns (its finally block finds
\* the connection unset or not connected, and closes nothing).
Accept(s) ==
  /\ pc[s] = "new"
  /\ IF tnos_ws_connection = 0 \/ ~tnos_connected
     THEN \E o \in ConnectOutcomes :
            /\ connect_to_tnos_mcp(o)
            /\ IF ConnectSucceeds(o)
               THEN /\ lastWire' = NegotiationFrame(nConn + 1)
                    /\ wireKinds' = {"version_negotiation"}
                    /\ peerPending' = NegotiationPending(o)
                    /\ pc' = [pc EXCEPT ![s] = "loop"]
                    /\ github_clients' = github_clients \cup {s}
                    /\ UNCHANGED lastOut
               ELSE /\ lastOut' = [lastOut EXCEPT
                         ![s] = ErrorFrame("connection_failure", FALSE, 0)]
                    /\ github_clients' = github_clients \ {s}
                    /\ pc' = [pc EXCEPT ![s] = "done"]
                    /\ UNCHANGED <<lastWire, wireKinds, peerPending>>
     ELSE /\ github_clients' = github_clients \cup {s}
          /\ pc' = [pc EXCEPT ![s] = "loop"]
          /\ UNCHANGED <<tnos_ws_connection, tnos_connected, reconnect_attempts,
                         last_error, current_version, server_version,
                         connOpen, nConn,
                         inbox, peerPending, timedOut, lastWire, wireKinds,
                         lastOut>>
  /\ UNCHANGED <<cur, nextReq, rl, now, rlLast, validatorVars, received>>
  /\ UNCHANGED <<startVars, translatorVars, serverVars, compressionVars>>

\* A handler that reads the message and sends nothing.
Reply_nothing(s, frame, request) ==
  /\ cur' = [cur EXCEPT ![s] = request]
  /\ UNCHANGED <<pc, lastOut>>

\* The reply to session s for its message, when the handler answers at once.
Reply(s, frame, request) ==
  /\ lastOut' = [lastOut EXCEPT ![s] = frame]
  /\ cur' = [cur EXCEPT ![s] = request]
  /\ UNCHANGED pc

\* A handler that sends the request and goes on to its next message.
SendWithoutWait(s, request, c, path) ==
  /\ lastWire' = [kind |-> "request", req |-> request.id, what |-> "",
                  meta |-> NoMeta, conn |-> c, mcp_version |-> NoVersion,
                  supported |-> {}, preferred |-> NoVersion]
  /\ cur' = [cur EXCEPT ![s] = [request EXCEPT !.path = path, !.conn = c]]
  /\ UNCHANGED <<pc, lastOut>>

\* The request goes out on connection c and the handler calls recv(): a
\* second recv() on a connection another coroutine is already reading raises
\* (websockets allows one reader), which the handler answers with
\* communication_failure.
SendAndWait(s, request, c, path) ==
  /\ lastWire' = RequestFrame(request.id, request.name, now, c)
  /\ IF \E t \in Sessions \ {s} : pc[t] = "wait" /\ cur[t].conn = c
     THEN Reply(s, ErrorFrame("communication_failure", FALSE, request.id),
                [request EXCEPT !.path = "recv_busy", !.conn = c])
     ELSE /\ pc' = [pc EXCEPT ![s] = "wait"]
          /\ cur' = [cur EXCEPT ![s] = [request EXCEPT !.path = path,
                                                      !.conn = c]]
          /\ UNCHANGED lastOut

\* One message of session s, from json.loads to the first await that waits
\* for the I-side.
HandleMessage(s, m) ==
  /\ pc[s] = "loop"
  /\ nextReq' = nextReq + 1
  /\ LET id == nextReq + 1
         request == [id |-> id, name |-> m.name, shape |-> m.shape,
                     path |-> "", conn |-> 0]
         checked == check_rate_limit(rl, m.name, now)
     IN
     IF m.shape = "bad_json"
     THEN /\ Reply(s, ErrorFrame("json_parsing_failure", TRUE, id),
                   [request EXCEPT !.path = "json"])
          /\ UNCHANGED <<tnos_ws_connection, tnos_connected, reconnect_attempts,
                         last_error, current_version, server_version,
                         connOpen, nConn,
                         inbox, peerPending, timedOut, lastWire, wireKinds,
                         rl>>
     ELSE IF m.shape = "not_dict"
     THEN \* github_request.get(...) in the log line raises AttributeError
          /\ Reply(s, ErrorFrame("processing_failure", TRUE, id),
                   [request EXCEPT !.path = "processing"])
          /\ UNCHANGED <<tnos_ws_connection, tnos_connected, reconnect_attempts,
                         last_error, current_version, server_version,
                         connOpen, nConn,
                         inbox, peerPending, timedOut, lastWire, wireKinds,
                         rl>>
     ELSE IF ~validate_github_request(m.shape)
     THEN /\ Reply(s, ErrorFrame("validation_failure", TRUE, id),
                   [request EXCEPT !.path = "validation"])
          /\ UNCHANGED <<tnos_ws_connection, tnos_connected, reconnect_attempts,
                         last_error, current_version, server_version,
                         connOpen, nConn,
                         inbox, peerPending, timedOut, lastWire, wireKinds,
                         rl>>
     ELSE IF Unsupported(m.name)
     THEN /\ Reply(s, UnsupportedFrame(id),
                   [request EXCEPT !.path = "unsupported"])
          /\ UNCHANGED <<tnos_ws_connection, tnos_connected, reconnect_attempts,
                         last_error, current_version, server_version,
                         connOpen, nConn,
                         inbox, peerPending, timedOut, lastWire, wireKinds,
                         rl>>
     ELSE
          /\ rl' = IF checked.allowed THEN checked.rl
                   ELSE get_remaining_quota(checked.rl, m.name, now).rl
          /\ IF ~checked.allowed
             THEN /\ Reply(s,
                        RateLimitFrame(id,
                          get_remaining_quota(checked.rl, m.name, now).quota),
                        [request EXCEPT !.path = "rate"])
                  /\ UNCHANGED <<tnos_ws_connection, tnos_connected, reconnect_attempts,
                         last_error, current_version, server_version,
                         connOpen,
                                 nConn, inbox, peerPending, timedOut,
                                 lastWire, wireKinds>>
             ELSE IF tnos_ws_connection = 0
             THEN \* None.send: AttributeError, the outer except Exception
                  /\ Reply(s, ErrorFrame("processing_failure", TRUE, id),
                           [request EXCEPT !.path = "no_connection"])
                  /\ UNCHANGED <<tnos_ws_connection, tnos_connected, reconnect_attempts,
                         last_error, current_version, server_version,
                         connOpen,
                                 nConn, inbox, peerPending, timedOut,
                                 lastWire, wireKinds>>
             ELSE IF tnos_ws_connection \in connOpen
             THEN /\ SendAndWait(s, request, tnos_ws_connection, "sent")
                  /\ wireKinds' = wireKinds \cup {"request"}
                  /\ peerPending' = peerPending \cup {id}
                  /\ UNCHANGED <<tnos_ws_connection, tnos_connected, reconnect_attempts,
                         last_error, current_version, server_version,
                         connOpen,
                                 nConn, inbox, timedOut>>
             ELSE \* ConnectionClosed: one reconnect
                  \E o \in ConnectOutcomes :
                    /\ connect_to_tnos_mcp(o)
                    /\ IF ConnectSucceeds(o)
                       THEN /\ SendAndWait(s, request, nConn + 1, "resent")
                            /\ wireKinds' = {"version_negotiation", "request"}
                            /\ peerPending' = NegotiationPending(o) \cup {id}
                       ELSE /\ Reply(s,
                                 ErrorFrame("connection_failure", FALSE, id),
                                 [request EXCEPT !.path = "reconnect_failed"])
                            /\ UNCHANGED <<lastWire, wireKinds, peerPending>>
  /\ received' = IF m.shape = "ok" /\ m.name \in DOMAIN received
                  THEN [received EXCEPT ![m.name] = @ + 1]
                  ELSE received
  /\ UNCHANGED <<github_clients, now, rlLast, validatorVars>>
  /\ UNCHANGED <<startVars, translatorVars, serverVars, compressionVars>>

\* recv() returns the next frame of the connection: it is translated and sent
\* to the session as the answer to its current request, whatever request the
\* peer sent it for.
RecvResponse(s) ==
  /\ pc[s] = "wait"
  /\ cur[s].conn = tnos_ws_connection
  /\ inbox # <<>>
  /\ lastOut' = [lastOut EXCEPT ![s] = ResponseFrame(cur[s].id, Head(inbox))]
  /\ inbox' = Tail(inbox)
  /\ pc' = [pc EXCEPT ![s] = "loop"]
  /\ UNCHANGED <<github_clients, tnos_ws_connection, tnos_connected, connOpen,
                 nConn, cur, peerPending, timedOut, lastWire, wireKinds,
                 nextReq, rl, now, rlLast, validatorVars, received,
                 reconnect_attempts, last_error, current_version,
                 server_version>>
  /\ UNCHANGED <<startVars, translatorVars, serverVars, compressionVars>>

\* asyncio.wait_for gives up after 30 s with nothing read.
RecvTimeout(s) ==
  /\ pc[s] = "wait"
  /\ cur[s].conn = tnos_ws_connection
  /\ cur[s].conn \in connOpen
  /\ inbox = <<>>
  /\ lastOut' = [lastOut EXCEPT
       ![s] = ErrorFrame("timeout", TRUE, cur[s].id)]
  /\ timedOut' = (timedOut \cup {cur[s].id}) \cap peerPending
  /\ pc' = [pc EXCEPT ![s] = "loop"]
  /\ UNCHANGED <<github_clients, tnos_ws_connection, tnos_connected, connOpen,
                 nConn, cur, inbox, peerPending, lastWire, wireKinds, nextReq,
                 rl, now, rlLast, validatorVars, received,
                 reconnect_attempts, last_error, current_version,
                 server_version>>
  /\ UNCHANGED <<startVars, translatorVars, serverVars, compressionVars>>

\* recv() raises ConnectionClosed: the connection the request went out on is
\* closed and holds nothing more to read.
RecvError(s) ==
  /\ pc[s] = "wait"
  /\ cur[s].conn \notin connOpen
  /\ cur[s].conn # tnos_ws_connection \/ inbox = <<>>
  /\ lastOut' = [lastOut EXCEPT
       ![s] = ErrorFrame("communication_failure", FALSE, cur[s].id)]
  /\ pc' = [pc EXCEPT ![s] = "loop"]
  /\ UNCHANGED <<github_clients, tnos_ws_connection, tnos_connected, connOpen,
                 nConn, cur, inbox, peerPending, timedOut, lastWire,
                 wireKinds, nextReq, rl, now, rlLast, validatorVars, received,
                 reconnect_attempts, last_error, current_version,
                 server_version>>
  /\ UNCHANGED <<startVars, translatorVars, serverVars, compressionVars>>

\* The client closes its socket: the message loop ends and the finally block
\* runs: the session leaves github_clients, and the last one out closes the
\* I-side connection.  close() is awaited; the two assignments that follow it
\* run once it returns (FinishClose).
ClientClose(s) ==
  /\ pc[s] = "loop"
  /\ github_clients' = github_clients \ {s}
  /\ IF github_clients \ {s} = {} /\ tnos_ws_connection # 0 /\ tnos_connected
     THEN /\ pc' = [pc EXCEPT ![s] = "closing"]
          /\ connOpen' = connOpen \ {tnos_ws_connection}
          /\ peerPending' = {}
          /\ timedOut' = {}
     ELSE /\ pc' = [pc EXCEPT ![s] = "done"]
          /\ UNCHANGED <<connOpen, peerPending, timedOut>>
  /\ UNCHANGED <<tnos_ws_connection, tnos_connected, nConn, cur, inbox,
                 lastOut, lastWire, wireKinds, nextReq, rl, now, rlLast, validatorVars, received,
                 reconnect_attempts, last_error, current_version,
                 server_version>>
  /\ UNCHANGED <<startVars, translatorVars, serverVars, compressionVars>>

\* close() has returned: tnos_ws_connection := None, connected := False.
FinishClose(s) ==
  /\ pc[s] = "closing"
  /\ tnos_ws_connection' = 0
  /\ tnos_connected' = FALSE
  /\ pc' = [pc EXCEPT ![s] = "done"]
  /\ UNCHANGED <<github_clients, connOpen, nConn, cur, inbox, peerPending,
                 timedOut, lastOut, lastWire, wireKinds, nextReq, rl, now,
                 rlLast, validatorVars, received,
                 reconnect_attempts, last_error, current_version,
                 server_version>>
  /\ UNCHANGED <<startVars, translatorVars, serverVars, compressionVars>>

\* ------------------------------------------------------------ the I-side peer
\* The peer answers one of the frames it holds (request r, or 0 for the
\* version negotiation) on the open connection; the answer is late when the
\* bridge has already given the request up.
PeerRespond(r) ==
  /\ r \in peerPending
  /\ tnos_ws_connection \in connOpen
  /\ inbox' = Append(inbox,
       [kind |-> IF r = 0 THEN "version_negotiation_response" ELSE "response",
        re |-> r, late |-> r \in timedOut])
  /\ peerPending' = peerPending \ {r}
  /\ timedOut' = timedOut \ {r}
  /\ UNCHANGED <<pc, github_clients, tnos_ws_connection, tnos_connected,
                 connOpen, nConn, cur, lastOut, lastWire, wireKinds, nextReq,
                 rl, now, rlLast, validatorVars, received,
                 reconnect_attempts, last_error, current_version,
                 server_version>>
  /\ UNCHANGED <<startVars, translatorVars, serverVars, compressionVars>>

\* The peer answers request r with an error message (MCPServer.handle_client
\* does so for a message type it has no handler for).
PeerError(r) ==
  /\ r \in peerPending
  /\ r # 0
  /\ tnos_ws_connection \in connOpen
  /\ inbox' = Append(inbox,
       [kind |-> "error", re |-> r, late |-> r \in timedOut])
  /\ peerPending' = peerPending \ {r}
  /\ timedOut' = timedOut \ {r}
  /\ UNCHANGED <<pc, github_clients, tnos_ws_connection, tnos_connected,
                 connOpen, nConn, cur, lastOut, lastWire, wireKinds, nextReq,
                 received, rl, now, rlLast, validatorVars,
                 reconnect_attempts, last_error, current_version,
                 server_version>>
  /\ UNCHANGED <<startVars, translatorVars, serverVars, compressionVars>>

\* The peer closes the connection (or the network does).
PeerClose ==
  /\ tnos_ws_connection \in connOpen
  /\ connOpen' = connOpen \ {tnos_ws_connection}
  /\ peerPending' = {}
  /\ timedOut' = {}
  /\ UNCHANGED <<pc, github_clients, tnos_ws_connection, tnos_connected,
                 nConn, cur, inbox, lastOut, lastWire, wireKinds, nextReq, rl,
                 now, rlLast, validatorVars, received,
                 reconnect_attempts, last_error, current_version,
                 server_version>>
  /\ UNCHANGED <<startVars, translatorVars, serverVars, compressionVars>>

\* ------------------------------------------- the I-side connection alone
\* The outcomes of connect_to_tnos_mcp with a peer that may answer the
\* negotiation with any selected_version.
NegotiationOutcomes == ConnectOutcomes \cup {"ok_unknown"}

\* One call of connect_to_tnos_mcp (a session arrives, or a request finds the
\* connection closed).
ConnectNeg(o) ==
  /\ reconnect_attempts < MaxAttempts
  /\ connect_to_tnos_mcp(o)
  /\ lastWire' = IF ConnectSucceeds(o) THEN NegotiationFrame(nConn + 1)
                 ELSE lastWire
  /\ UNCHANGED <<pc, github_clients, cur, peerPending, lastOut, wireKinds,
                 nextReq, received, rl, now, rlLast, validatorVars>>
  /\ UNCHANGED <<startVars, translatorVars, serverVars, compressionVars>>

NextNeg ==
  \/ \E o \in NegotiationOutcomes : ConnectNeg(o)
  \/ PeerClose

SpecNeg == Init /\ [][NextNeg]_vars

\* The well-formed requests among the messages.
OkMessages == {m \in Messages : m.shape = "ok" /\ m.name \in ToolNames}

\* Two sessions, well-formed requests.
Next ==
  \/ \E s \in Sessions : Accept(s)
  \/ \E s \in Sessions, m \in OkMessages :
       nextReq < MaxReq /\ HandleMessage(s, m)
  \/ \E s \in Sessions : RecvResponse(s)
  \/ \E s \in Sessions : RecvTimeout(s)
  \/ \E s \in Sessions : RecvError(s)
  \/ \E s \in Sessions : ClientClose(s)
  \/ \E s \in Sessions : FinishClose(s)
  \/ \E r \in 0..MaxReq : PeerRespond(r)
  \/ PeerClose

Spec == Init /\ [][Next]_vars

\* One session, every kind of message.
NextOne ==
  \/ Accept("s1")
  \/ \E m \in Messages : nextReq < MaxReqOne /\ HandleMessage("s1", m)
  \/ RecvResponse("s1")
  \/ RecvTimeout("s1")
  \/ RecvError("s1")
  \/ ClientClose("s1")
  \/ FinishClose("s1")
  \/ \E r \in 0..MaxReqOne : PeerRespond(r)
  \/ \E r \in 1..MaxReqOne : PeerError(r)
  \/ PeerClose

SpecOne == Init /\ [][NextOne]_vars

\* One session, every kind of message, in shorter runs.
NextOneFair ==
  \/ Accept("s1")
  \/ \E m \in Messages : nextReq < MaxReqFair /\ HandleMessage("s1", m)
  \/ RecvResponse("s1")
  \/ RecvTimeout("s1")
  \/ RecvError("s1")
  \/ ClientClose("s1")
  \/ FinishClose("s1")
  \/ \E r \in 0..MaxReqFair : PeerRespond(r)
  \/ \E r \in 1..MaxReqFair : PeerError(r)
  \/ PeerClose

\* The same, with the scheduling of the wait for the I-side: recv() returns
\* a frame or raises, or asyncio.wait_for gives up after 30 s.
SpecOneFair ==
  /\ Init
  /\ [][NextOneFair]_vars
  /\ WF_vars(RecvResponse("s1") \/ RecvTimeout("s1") \/ RecvError("s1"))

\* ---------------------------------------------------- the rate limiter alone
\* The tools check_rate_limit is asked about: one with a configured limit,
\* one without (a key of tool_mapping).
LimiterTools == ConfiguredTools \cup DOMAIN tool_mapping

\* One call of check_rate_limit(tool) at the current time.
CheckRateLimit(tool) ==
  /\ rlLast.n < MaxCalls
  /\ rl' = check_rate_limit(rl, tool, now).rl
  /\ rlLast' = [n |-> rlLast.n + 1, tool |-> tool,
                allowed |-> check_rate_limit(rl, tool, now).allowed,
                before |-> rl, at |-> now,
                exceeded |-> check_rate_limit(rl, tool, now).exceeded,
                alert |-> check_rate_limit(rl, tool, now).alert]
  /\ UNCHANGED <<bridgeVars, now, validatorVars>>
  /\ UNCHANGED <<startVars, translatorVars, serverVars, compressionVars>>

\* One call of update_limits with a new global limit.
UpdateGlobalLimit(g) ==
  /\ g # rl.global_limit
  /\ rl' = update_limits(rl, g, <<>>)
  /\ UNCHANGED <<bridgeVars, now, rlLast, validatorVars>>
  /\ UNCHANGED <<startVars, translatorVars, serverVars, compressionVars>>

\* One call of update_limits with a new limit for one tool.
UpdateToolLimit(tool, l) ==
  /\ IF tool \in DOMAIN rl.tool_limits THEN rl.tool_limits[tool] # l
     ELSE TRUE
  /\ rl' = update_limits(rl, None, [t \in {tool} |-> l])
  /\ UNCHANGED <<bridgeVars, now, rlLast, validatorVars>>
  /\ UNCHANGED <<startVars, translatorVars, serverVars, compressionVars>>

\* time.time() advances.
Tick ==
  /\ now < MaxTime
  /\ now' = now + TickStep
  /\ UNCHANGED <<bridgeVars, rl, rlLast, validatorVars>>
  /\ UNCHANGED <<startVars, translatorVars, serverVars, compressionVars>>

NextRL ==
  \/ \E tool \in LimiterTools : CheckRateLimit(tool)
  \/ \E g \in 1..MaxLimit : UpdateGlobalLimit(g)
  \/ \E tool \in LimiterTools, l \in 1..MaxLimit : UpdateToolLimit(tool, l)
  \/ Tick

SpecRL == Init /\ [][NextRL]_vars

\* ------------------------------------------- the rate limiter's audit trail
\* One call of check_rate_limit(tool) at the current time, in a run long
\* enough for exceeded attempts to age.
CheckRateLimitAudit(tool) ==
  /\ rlLast.n < MaxCallsAudit
  /\ rl' = check_rate_limit(rl, tool, now).rl
  /\ rlLast' = [n |-> rlLast.n + 1, tool |-> tool,
                allowed |-> check_rate_limit(rl, tool, now).allowed,
                before |-> rl, at |-> now,
                exceeded |-> check_rate_limit(rl, tool, now).exceeded,
                alert |-> check_rate_limit(rl, tool, now).alert]
  /\ UNCHANGED <<bridgeVars, now, validatorVars>>
  /\ UNCHANGED <<startVars, translatorVars, serverVars, compressionVars>>

\* time.time() advances.
TickAudit ==
  /\ now + TickStepAudit <= MaxTimeAudit
  /\ now' = now + TickStepAudit
  /\ UNCHANGED <<bridgeVars, rl, rlLast, validatorVars>>
  /\ UNCHANGED <<startVars, translatorVars, serverVars, compressionVars>>

NextAudit ==
  \/ \E tool \in LimiterTools : CheckRateLimitAudit(tool)
  \/ \E g \in 1..MaxLimit : UpdateGlobalLimit(g)
  \/ TickAudit

SpecAudit == Init /\ [][NextAudit]_vars

\* ------------------------------------------------------- the validator alone
\* The message ids and timestamps of the frames that arrive.
FrameIds == 1..(ReplayCap + 1)
FrameTimes == {t \in 0..MaxTimeV : t % TickStepV = 0}
              \cup {MaxTimeV - MaxAge}

\* The frames that arrive: signed ones, signed ones whose signature was
\* replaced, ones that miss their signature, ones without a meta block.
Frames ==
  {sign_message("b", i, t) : i \in FrameIds, t \in FrameTimes}
  \cup {[sign_message("b", i, t) EXCEPT !.meta.signature = <<"forged">>] :
          i \in FrameIds, t \in FrameTimes}
  \cup {[sign_message("b", i, t) EXCEPT !.meta.signature = NoSignature] :
          i \in FrameIds, t \in FrameTimes}
  \cup {[shape |-> "no_meta"]}

\* The message id a frame carries (NoId when it has no meta block).
FrameId(f) == IF f.shape = "dict" THEN f.meta.message_id ELSE NoId

\* One inbound frame goes through verify_message at the current time.
VerifyMessage(f) ==
  /\ vLast.n < MaxFrames
  /\ f.shape = "dict" => f.meta.timestamp <= now
  /\ message_ids' = verify_message(message_ids, f, now).ids
  /\ vLast' = [n |-> vLast.n + 1, frame |-> f,
               ok |-> verify_message(message_ids, f, now).ok,
               reason |-> verify_message(message_ids, f, now).reason,
               before |-> message_ids, at |-> now]
  /\ inboundIds' = deque_append(inboundIds, FrameId(f), ReplayCap)
  /\ UNCHANGED <<bridgeVars, rl, now, rlLast, sg_message, sg_signed>>
  /\ UNCHANGED <<startVars, translatorVars, serverVars, compressionVars>>

\* time.time() advances.
TickV ==
  /\ now < MaxTimeV
  /\ now' = now + TickStepV
  /\ UNCHANGED <<bridgeVars, rl, rlLast, validatorVars>>
  /\ UNCHANGED <<startVars, translatorVars, serverVars, compressionVars>>

NextV ==
  \/ \E f \in Frames : VerifyMessage(f)
  \/ TickV

SpecV == Init /\ [][NextV]_vars

\* ------------------------------------------------- signing, then verifying
\* The dictionaries given to sign_message: without a meta block, with an
\* empty one, and ones sign_message returned before.
SignInputs ==
  {[body |-> "b", meta |-> <<>>], [body |-> "b", meta |-> <<NoMeta>>]}
  \cup {[body |-> "b", meta |-> <<sign_message("b", i, 0).meta>>] :
          i \in FrameIds}

\* sign_message(m) at the current time; uuid.uuid4() gives id.
SignMessage(m, id) ==
  /\ sg_signed = <<>>
  /\ vLast.n < MaxFrames
  /\ sg_message' = m
  /\ sg_signed' = <<sign_message_dict(m, id, now)>>
  /\ UNCHANGED <<bridgeVars, rl, now, rlLast, message_ids, vLast,
                 inboundIds>>
  /\ UNCHANGED <<startVars, translatorVars, serverVars, compressionVars>>

\* The same validator verifies the frame sign_message returned.
VerifySigned ==
  /\ sg_signed # <<>>
  /\ message_ids' = verify_message(message_ids, sg_signed[1], now).ids
  /\ vLast' = [n |-> vLast.n + 1, frame |-> sg_signed[1],
               ok |-> verify_message(message_ids, sg_signed[1], now).ok,
               reason |-> verify_message(message_ids, sg_signed[1], now).reason,
               before |-> message_ids, at |-> now]
  /\ inboundIds' = deque_append(inboundIds, FrameId(sg_signed[1]), ReplayCap)
  /\ sg_signed' = <<>>
  /\ UNCHANGED <<bridgeVars, rl, now, rlLast, sg_message>>
  /\ UNCHANGED <<startVars, translatorVars, serverVars, compressionVars>>

NextSign ==
  \/ \E m \in SignInputs, id \in FrameIds : SignMessage(m, id)
  \/ VerifySigned
  \/ TickV

SpecSign == Init /\ [][NextSign]_vars

\* ----------------------------------------------------------------- start()
\* A probe that never finds the port in use.
check_port_never_in_use(bound, other) == FALSE

\* PortManager.check_port_in_use("localhost", port): connect_ex returns 0 when
\* some socket listens on the port.
check_port_in_use(bound, other) == bound # {} \/ other

\* websockets.serve binds the port: the bind succeeds when no socket listens
\* on it and raises OSError (address in use) otherwise.
bind_succeeds(bound, other) == bound = {} /\ ~other

\* start() of process i up to its first await: the probe; a port in use makes
\* it log and return.
Probe(i) ==
  /\ startPc[i] = "init"
  /\ startPc' = [startPc EXCEPT ![i] =
       IF check_port_in_use(listeners, otherListener) THEN "refused"
       ELSE "probed"]
  /\ UNCHANGED <<listeners, otherListener>>
  /\ UNCHANGED <<bridgeVars, rl, now, rlLast, validatorVars, translatorVars,
                 serverVars, compressionVars>>

\* await websockets.serve(...): the process binds and serves, or the bind
\* raises and start() logs "Failed to start" and returns.
Serve(i) ==
  /\ startPc[i] = "probed"
  /\ IF bind_succeeds(listeners, otherListener)
     THEN /\ listeners' = listeners \cup {i}
          /\ startPc' = [startPc EXCEPT ![i] = "serving"]
     ELSE /\ startPc' = [startPc EXCEPT ![i] = "failed"]
          /\ UNCHANGED listeners
  /\ UNCHANGED otherListener
  /\ UNCHANGED <<bridgeVars, rl, now, rlLast, validatorVars, translatorVars,
                 serverVars, compressionVars>>

\* server.wait_closed() returns: the process stops serving.
StopServing(i) ==
  /\ startPc[i] = "serving"
  /\ listeners' = listeners \ {i}
  /\ startPc' = [startPc EXCEPT ![i] = "stopped"]
  /\ UNCHANGED otherListener
  /\ UNCHANGED <<bridgeVars, rl, now, rlLast, validatorVars, translatorVars,
                 serverVars, compressionVars>>

\* Another program binds the port, or releases it.
OtherBinds ==
  /\ ~otherListener
  /\ bind_succeeds(listeners, otherListener)
  /\ otherListener' = TRUE
  /\ UNCHANGED <<startPc, listeners>>
  /\ UNCHANGED <<bridgeVars, rl, now, rlLast, validatorVars, translatorVars,
                 serverVars, compressionVars>>

OtherReleases ==
  /\ otherListener
  /\ otherListener' = FALSE
  /\ UNCHANGED <<startPc, listeners>>
  /\ UNCHANGED <<bridgeVars, rl, now, rlLast, validatorVars, translatorVars,
                 serverVars, compressionVars>>

NextStart ==
  \/ \E i \in Instances : Probe(i)
  \/ \E i \in Instances : Serve(i)
  \/ \E i \in Instances : StopServing(i)
  \/ OtherBinds
  \/ OtherReleases

SpecStart == Init /\ [][NextStart]_vars

\* ------------------------------------------------------------- translation
\* dict.get(k) without a default: the value in a sequence of one, or the
\* empty sequence when the dictionary has no key k.
get(d, k) == IF k \in DOMAIN d THEN <<d[k]>> ELSE <<>>

\* The parameters objects of the requests (the second has a paging key).
Parameters == {[owner |-> "octo"], [owner |-> "octo", perPage |-> "10"]}

\* The ids a request can carry.
RequestIds == {"id-1", "id-2"}

\* The well-formed requests that reach the translation in
\* handle_github_request: name and parameters are there, the tool is
\* supported; the id is optional.
Requests ==
  LET names == {n \in ToolNames : ~Unsupported(n)}
  IN  {[name |-> n, parameters |-> p] : n \in names, p \in Parameters}
      \cup {[name |-> n, parameters |-> p, id |-> i] :
              n \in names, p \in Parameters, i \in RequestIds}

\* json.dumps of a value: its text.
json_dumps(v) == <<"json", v>>

\* MCPContext(): the context as its constructor leaves it at time t.
MCPContext(t) ==
  [who |-> "System", what |-> "Initialize", when |-> t,
   where |-> "MCP_Server"]

\* The context handle_github_request builds for request x at time t:
\* translate_github_to_tnos_context's who, what and when, and the metadata it
\* attaches.
tnos_context(x, t) ==
  LET c == translate_github_to_tnos_context(x.name, t)
  IN  [who |-> c.who, what |-> c.what, when |-> c.when,
       metadata |-> [original_github_request |-> json_dumps(x),
                     github_tool |-> x.name,
                     mcp_version |-> current_version]]

\* MCPMessage(message_type, context, content)
MCPMessage(message_type, context, content) ==
  [message_type |-> message_type, context |-> context, content |-> content]

\* What a peer can put in a field of the context it sends: nothing (the key is
\* absent), the empty value, or a value.  An empty `when` is NoTimestamp.
PeerWho == {<<>>, <<"">>, <<"TNOS">>}
PeerWhat == {<<>>, <<"">>, <<"Response">>}
PeerWhen == {<<>>, <<NoTimestamp>>, <<MaxTime>>}

\* A Python str, by its text: the text json.dumps gives for a value, or text
\* that is no JSON.
str(text) == [str |-> text]

\* isinstance(v, str) of a content value (a str or a dictionary).
isinstance_str(v) == "str" \in DOMAIN v

\* json.loads(s): the value the text stands for, or JSONDecodeError.
json_loads(s) ==
  IF s.str[1] = "json" THEN [ok |-> TRUE, value |-> s.str[2]]
  ELSE [ok |-> FALSE, value |-> <<>>]

\* The contents a peer can answer with: a dictionary, a str that is the JSON
\* text of a dictionary, a str that is no JSON, the empty str.
PeerContents ==
  {[status |-> "done"],
   str(json_dumps([status |-> "done"])),
   str(<<"text", "not json">>),
   str(<<"text", "">>)}

\* The messages a peer can answer with: a dictionary whose context is a
\* dictionary with some of the keys, or is no dictionary at all.
PeerData ==
  {[message_type |-> "response", content |-> k,
    context |-> [is_dict |-> TRUE, who |-> a, what |-> b, when |-> c,
                 where |-> <<>>]] :
      a \in PeerWho, b \in PeerWhat, c \in PeerWhen, k \in PeerContents}
  \cup {[message_type |-> "response", content |-> k,
         context |-> [is_dict |-> FALSE, who |-> <<>>, what |-> <<>>,
                      when |-> <<>>, where |-> <<>>]] : k \in PeerContents}

\* MCPContext.from_dict(data) at time t: data.get(key, default) for each
\* field when data is a dictionary, the constructor's context otherwise.
MCPContext_from_dict(data, t) ==
  LET context == MCPContext(t)
      pick(v, default) == IF v = <<>> THEN default ELSE v[1]
  IN  IF data.is_dict
      THEN [who |-> pick(data.who, context.who),
            what |-> pick(data.what, context.what),
            when |-> pick(data.when, context.when),
            where |-> pick(data.where, context.where)]
      ELSE context

\* MCPMessage.from_dict(data) at time t
MCPMessage_from_dict(data, t) ==
  MCPMessage(data.message_type, MCPContext_from_dict(data.context, t),
             data.content)

\* A translation back that passes the content on as it is, text or not.
translate_content_as_is(response, original_request) ==
  [result |-> response.content,
   metadata |-> [tnos_context |-> [who |-> response.context.who,
                                   what |-> response.context.what,
                                   when |-> response.context.when],
                 mcp_version |-> current_version]]

\* translate_tnos_to_github_response(tnos_response, original_request): the
\* message's content as the result (a str parsed as JSON, or wrapped in a
\* content field when it is no JSON), its context's fields as metadata; the
\* original request is not read.
translate_tnos_to_github_response(response, original_request) ==
  LET result_content ==
        IF isinstance_str(response.content)
        THEN IF json_loads(response.content).ok
             THEN json_loads(response.content).value
             ELSE [content |-> response.content]
        ELSE response.content
  IN  [result |-> result_content,
       metadata |-> [tnos_context |-> [who |-> response.context.who,
                                       what |-> response.context.what,
                                       when |-> response.context.when],
                     mcp_version |-> current_version]]

\* handle_github_request translates request x and builds the message it
\* sends to the I-side.
Translate(x) ==
  /\ tpc \in {"idle", "round_trip", "delivered"}
  /\ tpc' = "translated"
  /\ github_request' = x
  /\ tnos_message' = MCPMessage("request", tnos_context(x, now),
                                get(x, "parameters")[1])
  /\ tnos_response' = <<>>
  /\ github_response' = <<>>
  /\ UNCHANGED <<bridgeVars, rl, now, rlLast, validatorVars, startVars,
                 serverVars, compressionVars>>

\* The translated message is translated back without a peer in between.
RoundTrip ==
  /\ tpc = "translated"
  /\ tpc' = "round_trip"
  /\ github_response' =
       translate_tnos_to_github_response(tnos_message, github_request)
  /\ UNCHANGED <<github_request, tnos_message, tnos_response>>
  /\ UNCHANGED <<bridgeVars, rl, now, rlLast, validatorVars, startVars,
                 serverVars, compressionVars>>

\* The peer's answer d is read and parsed: MCPMessage.from_json.
ParseResponse(d) ==
  /\ tpc = "translated"
  /\ tpc' = "answered"
  /\ tnos_response' = MCPMessage_from_dict(d, now)
  /\ UNCHANGED <<github_request, tnos_message, github_response>>
  /\ UNCHANGED <<bridgeVars, rl, now, rlLast, validatorVars, startVars,
                 serverVars, compressionVars>>

\* The parsed answer is translated and sent to the session.
TranslateResponse ==
  /\ tpc = "answered"
  /\ tpc' = "delivered"
  /\ github_response' =
       translate_tnos_to_github_response(tnos_response, github_request)
  /\ UNCHANGED <<github_request, tnos_message, tnos_response>>
  /\ UNCHANGED <<bridgeVars, rl, now, rlLast, validatorVars, startVars,
                 serverVars, compressionVars>>

\* time.time() advances.
TickT ==
  /\ now + TickStep <= MaxTime
  /\ now' = now + TickStep
  /\ UNCHANGED <<bridgeVars, rl, rlLast, validatorVars, startVars,
                 translatorVars, serverVars, compressionVars>>

NextT ==
  \/ \E x \in Requests : Translate(x)
  \/ RoundTrip
  \/ \E d \in PeerData : ParseResponse(d)
  \/ TranslateResponse
  \/ TickT

SpecT == Init /\ [][NextT]_vars

\* ------------------------------------------------------------ the server
\* The sessions of MCPServer (one handle_client coroutine each).
ServerSessions == {"c1", "c2"}

\* What a client can send as one message: text that is no JSON, or a
\* dictionary with a message type and a context that has some of the keys.
\* JSON that is no dictionary has dict FALSE; message_id is <<>> when the
\* key is absent.
ServerData ==
  {[json |-> j, dict |-> FALSE, message_type |-> "", message_id |-> <<>>,
    context |-> [is_dict |-> FALSE, who |-> <<>>, what |-> <<>>,
                 when |-> <<>>, where |-> <<>>]] : j \in BOOLEAN}
  \cup {[json |-> TRUE, dict |-> TRUE, message_type |-> mt, message_id |-> i,
         context |-> [is_dict |-> TRUE, who |-> <<>>, what |-> b,
                      when |-> <<>>, where |-> c]] :
          mt \in {"ping", "version_negotiation", "request"},
          i \in {<<>>, <<"m7">>},
          b \in {<<>>, <<"Query">>}, c \in {<<>>, <<"Bridge">>}}

\* message.message_id after MCPMessage.from_dict(d): the one of the data, or
\* the uuid4 the constructor drew.
message_id(d) == IF d.message_id = <<>> THEN "uuid4" ELSE d.message_id[1]

\* A server whose replies echo no message id.
responses_without_echo(d) ==
  IF ~d.json
  THEN <<[message_type |-> "error", received_message_id |-> "",
          error |-> <<"Invalid JSON format">>]>>
  ELSE IF ~d.dict
  THEN <<[message_type |-> "error", received_message_id |-> "",
          error |-> <<"Server error">>]>>
  ELSE IF d.message_type = "ping"
  THEN <<[message_type |-> "pong", received_message_id |-> "",
          error |-> <<>>]>>
  ELSE IF d.message_type = "version_negotiation"
  THEN <<[message_type |-> "version_negotiation_response",
          received_message_id |-> "", error |-> <<>>]>>
  ELSE <<[message_type |-> "error", received_message_id |-> "",
          error |-> <<"Unsupported message type", d.message_type>>]>>

\* The frames handle_client sends for the data d of one received frame, in
\* order: the error of the JSONDecodeError branch, the error of the
\* except Exception branch (from_dict raises ValueError for JSON that is no
\* dictionary), the response of the registered handler, or the error of a
\* message type without handler.
responses(d) ==
  IF ~d.json
  THEN <<[message_type |-> "error", received_message_id |-> "",
          error |-> <<"Invalid JSON format">>]>>
  ELSE IF ~d.dict
  THEN <<[message_type |-> "error", received_message_id |-> "",
          error |-> <<"Server error">>]>>
  ELSE IF d.message_type = "ping"
  THEN <<[message_type |-> "pong", received_message_id |-> message_id(d),
          error |-> <<>>]>>
  ELSE IF d.message_type = "version_negotiation"
  THEN <<[message_type |-> "version_negotiation_response",
          received_message_id |-> "", error |-> <<>>]>>
  ELSE <<[message_type |-> "error", received_message_id |-> message_id(d),
          error |-> <<"Unsupported message type", d.message_type>>]>>

\* MCPServer.message_handlers after _register_default_handlers: the value
\* each handler writes to the what of its response context.
message_handlers ==
  [mt \in {"ping", "version_negotiation"} |->
     IF mt = "ping" THEN "PingResponse" ELSE "VersionNegotiation"]

\* f"Session_{session_id[:8]}"
SessionWhere(c) == <<"Session_", c>>

\* What _handle_ping, _handle_version_negotiation and the error branch of
\* handle_client do with the context object o of the message on the heap h:
\* response_context = message.context binds the same object, and the
\* assignment to response_context.what writes to it.
respond_in_place(h, o, what) ==
  [heap |-> [h EXCEPT ![o].what = what], response_context |-> o]

\* handle_client of session c starts: a context for the session.
ClientConnect(c) ==
  /\ c \notin DOMAIN session_contexts
  /\ nObj < MaxObjects
  /\ nObj' = nObj + 1
  /\ heap' = [x \in DOMAIN heap \cup {nObj + 1} |->
                IF x = nObj + 1
                THEN [MCPContext(now) EXCEPT !.where = SessionWhere(c)]
                ELSE heap[x]]
  /\ session_contexts' = [x \in DOMAIN session_contexts \cup {c} |->
                            IF x = c THEN nObj + 1 ELSE session_contexts[x]]
  /\ clients' = clients \cup {c}
  /\ srvOpen' = srvOpen \cup {c}
  /\ UNCHANGED <<srvLast, vnLast>>
  /\ UNCHANGED <<bridgeVars, rl, now, rlLast, validatorVars, startVars,
                 translatorVars, compressionVars>>

\* One message d of session c, from json.loads to the send of the response.
\* Objects no name refers to any more leave the heap.
HandleClientMessage(c, d) ==
  /\ c \in DOMAIN session_contexts
  /\ c \in srvOpen
  /\ srvLast.n < MaxServerMessages
  /\ nObj < MaxObjects
  /\ IF ~d.json \/ ~d.dict
     THEN /\ srvLast' = [n |-> srvLast.n + 1, session |-> c,
                         message_type |-> IF d.json THEN "not_dict"
                                          ELSE "invalid_json",
                         message_context |-> 0, response_context |-> 0,
                         before |-> NoContext, after |-> NoContext,
                         stored |-> heap[session_contexts[c]],
                         data_id |-> <<>>, replies |-> responses(d)]
          /\ UNCHANGED <<heap, session_contexts, nObj>>
     ELSE LET o == nObj + 1
              parsed == MCPContext_from_dict(d.context, now)
              context == IF parsed.where = "MCP_Server"
                         THEN [parsed EXCEPT !.where = SessionWhere(c)]
                         ELSE parsed
              h1 == [x \in DOMAIN heap \cup {o} |->
                       IF x = o THEN context ELSE heap[x]]
              sc == [session_contexts EXCEPT ![c] = o]
              what == IF d.message_type \in DOMAIN message_handlers
                      THEN message_handlers[d.message_type] ELSE "Error"
              r == respond_in_place(h1, o, what)
              live == {sc[x] : x \in DOMAIN sc}
          IN  /\ nObj' = nObj + 1
              /\ session_contexts' = sc
              /\ heap' = [x \in live |-> r.heap[x]]
              /\ srvLast' = [n |-> srvLast.n + 1, session |-> c,
                             message_type |-> d.message_type,
                             message_context |-> o,
                             response_context |-> r.response_context,
                             before |-> context, after |-> r.heap[o],
                             stored |-> r.heap[sc[c]],
                             data_id |-> d.message_id,
                             replies |-> responses(d)]
  /\ UNCHANGED <<vnLast, clients, srvOpen>>
  /\ UNCHANGED <<bridgeVars, rl, now, rlLast, validatorVars, startVars,
                 translatorVars, compressionVars>>

\* The connection of session c ends: the client closes it, or it breaks.
SocketClose(c) ==
  /\ c \in srvOpen
  /\ srvOpen' = srvOpen \ {c}
  /\ UNCHANGED <<heap, session_contexts, nObj, srvLast, vnLast, clients>>
  /\ UNCHANGED <<bridgeVars, rl, now, rlLast, validatorVars, startVars,
                 translatorVars, compressionVars>>

\* A disconnect that forgets the socket and keeps the session's context.
finally_keeps_context(sc, c) == sc

\* del self.session_contexts[session_id] of the finally block.
finally_del_context(sc, c) == [x \in DOMAIN sc \ {c} |-> sc[x]]

\* handle_client of session c sees the end of its connection (the loop ends
\* on a clean close, ConnectionClosed is caught on a broken one): the finally
\* block.
ClientDisconnect(c) ==
  /\ c \in DOMAIN session_contexts
  /\ c \notin srvOpen
  /\ clients' = clients \ {c}
  /\ session_contexts' = finally_del_context(session_contexts, c)
  /\ heap' = [x \in {session_contexts'[y] : y \in DOMAIN session_contexts'}
                |-> heap[x]]
  /\ UNCHANGED <<nObj, srvLast, vnLast, srvOpen>>
  /\ UNCHANGED <<bridgeVars, rl, now, rlLast, validatorVars, startVars,
                 translatorVars, compressionVars>>

NextServer ==
  \/ \E c \in ServerSessions : ClientConnect(c)
  \/ \E c \in ServerSessions : SocketClose(c)
  \/ \E c \in ServerSessions, d \in ServerData : HandleClientMessage(c, d)
  \/ \E c \in ServerSessions : ClientDisconnect(c)

SpecServer == Init /\ [][NextServer]_vars

\* ------------------------------------------------ the version negotiations
\* supported_versions of MCPServer._handle_version_negotiation, in its order.
server_supported_versions == <<"1.0", "1.5", "2.0", "2.5", "3.0">>

\* VersionManager.SUPPORTED_VERSIONS in its order, all five.
VersionManagerVersions == <<"1.0", "1.5", "2.0", "2.5", "3.0">>

\* The versions a client names: some both sides know, some neither does.
ClientVersionPool == {"0.9", "1.0", "2.0", "3.0", "4.0"}

\* for v in reversed(versions): if v in client_versions: the first hit, or
\* <<>> when the loop ends without one.
highest_common(versions, client_versions) ==
  LET hits == {i \in 1..Len(versions) : versions[i] \in client_versions}
  IN  IF hits = {} THEN <<>>
      ELSE <<versions[CHOOSE i \in hits : \A j \in hits : j <= i]>>

\* MCPServer._handle_version_negotiation: selected_version for the content's
\* supported_versions and preferred_version (<<>> when the key is absent:
\* content.get("preferred_version", "1.0")).
_handle_version_negotiation(client_versions, preferred) ==
  LET preferred_version == IF preferred = <<>> THEN "1.0" ELSE preferred[1]
      common == highest_common(server_supported_versions, client_versions)
  IN  IF common # <<>> THEN common[1]
      ELSE IF \E i \in 1..Len(server_supported_versions) :
                server_supported_versions[i] = preferred_version
      THEN preferred_version
      ELSE server_supported_versions[Len(server_supported_versions)]

\* VersionManager.negotiate_version(client_versions)
negotiate_version(client_versions) ==
  LET common == highest_common(VersionManagerVersions, client_versions)
  IN  IF common # <<>> THEN common[1]
      ELSE VersionManagerVersions[Len(VersionManagerVersions)]

\* One negotiation: the server's handler and VersionManager are given the
\* same list of client versions.
NegotiateVersion(client_versions, preferred) ==
  /\ vnLast' = [n |-> 1, client_versions |-> client_versions,
                preferred_version |-> preferred,
                selected_version |->
                  _handle_version_negotiation(client_versions, preferred),
                negotiate_version |-> negotiate_version(client_versions)]
  /\ UNCHANGED <<heap, session_contexts, nObj, srvLast, clients, srvOpen>>
  /\ UNCHANGED <<bridgeVars, rl, now, rlLast, validatorVars, startVars,
                 translatorVars, compressionVars>>

NextVN ==
  \E client_versions \in SUBSET ClientVersionPool,
     preferred \in {<<>>} \cup {<<v>> : v \in ClientVersionPool} :
    NegotiateVersion(client_versions, preferred)

SpecVN == Init /\ [][NextVN]_vars

\* -------------------------------------------------------- MobiusCompression
\* The values given to compress: a dictionary, a number, and strs: the JSON
\* text of a dictionary, the text "5", text that starts with a brace and is
\* no JSON, plain text, the empty str.  A number n is [int |-> n].
CompressInputs ==
  {[status |-> "done"],
   [int |-> 5],
   str(json_dumps([status |-> "done"])),
   str(json_dumps([int |-> 5])),
   str(<<"text", "{oops">>),
   str(<<"text", "hello">>),
   str(<<"text", "">>)}

\* The params of compress: the two flags, and a context with or without who.
CompressParams ==
  {[useTimeFactor |-> a, useEnergyFactor |-> b, context |-> c] :
     a \in BOOLEAN, b \in BOOLEAN,
     c \in {<<>>, [who |-> "MCPBridge"]}}

\* original_data.strip().startswith(("{", "[")) of a str: the JSON text of a
\* dictionary does, the JSON text of a number or of a str does not.
looks_like_json(s) ==
  IF s.str[1] = "json"
  THEN "int" \notin DOMAIN s.str[2] /\ "str" \notin DOMAIN s.str[2]
  ELSE s.str[2] \in {"{oops"}

\* MobiusCompression.extract_context_factors(context): the factors the
\* result reports, in thousandths (B is scaled by 1.2 for who = "MCPBridge";
\* the context has no when, so t is 1.0).
extract_context_factors(context) ==
  [B |-> IF "who" \in DOMAIN context THEN 1800 ELSE 1500, E |-> 500,
   t |-> 1000]

\* MobiusCompression.compress(data, params): the package carries the data's
\* text (the data itself when it is a str, json.dumps of it otherwise), and
\* the result's data is json.dumps of the package.
compress(data, params) ==
  LET factors == extract_context_factors(params.context)
      data_str == IF isinstance_str(data) THEN data ELSE str(json_dumps(data))
      compressed_package ==
        [algorithm |-> "mobius7d", version |-> "1.0",
         compressionFactors |-> factors, data |-> data_str]
  IN  [success |-> TRUE,
       data |-> str(json_dumps(compressed_package)),
       metadata |-> [algorithm |-> "mobius7d",
                     B |-> factors.B,
                     E |-> IF params.useEnergyFactor THEN factors.E ELSE 300,
                     t |-> IF params.useTimeFactor THEN factors.t ELSE 100,
                     useTimeFactor |-> params.useTimeFactor,
                     useEnergyFactor |-> params.useEnergyFactor]]

\* MobiusCompression.decompress(compressed_data): the package's data, parsed
\* as JSON when it is a str that starts with a brace or a bracket and parses.
\* The result's data is <<value>>, or <<>> when decompress fails.
decompress(compressed_data) ==
  LET decoded == json_loads(compressed_data.data)
      decoded_json == decoded.value
      original_data == decoded_json.data
  IN  IF ~decoded.ok
      THEN [success |-> FALSE, data |-> <<>>,
            metadata |-> compressed_data.metadata]
      ELSE [success |-> TRUE,
            data |-> IF isinstance_str(original_data)
                        /\ looks_like_json(original_data)
                        /\ json_loads(original_data).ok
                     THEN <<json_loads(original_data).value>>
                     ELSE <<original_data>>,
            metadata |-> compressed_data.metadata]

\* One call of compress.
Compress(d, params) ==
  /\ mc_pc \in {"idle", "decompressed"}
  /\ mc_stats.compressions < MaxCompressions
  /\ mc_pc' = "compressed"
  /\ mc_data' = d
  /\ mc_compressed' = compress(d, params)
  /\ mc_decompressed' = <<>>
  /\ mc_stats' = [mc_stats EXCEPT !.compressions = @ + 1]
  /\ UNCHANGED <<bridgeVars, rl, now, rlLast, validatorVars, startVars,
                 translatorVars, serverVars>>

\* One call of decompress, on what compress returned.
Decompress ==
  /\ mc_pc = "compressed"
  /\ mc_pc' = "decompressed"
  /\ mc_decompressed' = decompress(mc_compressed)
  /\ mc_stats' = [mc_stats EXCEPT
                    !.decompressions = @ + 1,
                    !.errors = IF decompress(mc_compressed).success
                               THEN @ ELSE @ + 1]
  /\ UNCHANGED <<mc_data, mc_compressed>>
  /\ UNCHANGED <<bridgeVars, rl, now, rlLast, validatorVars, startVars,
                 translatorVars, serverVars>>

NextCompression ==
  \/ \E d \in CompressInputs, params \in CompressParams : Compress(d, params)
  \/ Decompress

SpecCompression == Init /\ [][NextCompression]_vars

\* ------------------------------------------------------------------ claims
\* C1: a request the validator rejects (a required field missing, an
\* injection pattern) or the rate limiter rejects is answered to its session
\* with the structured error of that rejection, and the frame last sent on the
\* I-side is never a frame for that request.
C1_RejectedNotForwarded ==
  \A s \in Sessions :
    (cur[s].shape \in {"no_name", "injection"} \/ cur[s].path = "rate") =>
      /\ lastOut[s].kind = "error"
      /\ lastOut[s].for = cur[s].id
      /\ lastOut[s].errorType =
           (IF cur[s].path = "rate" THEN "rate_limit_exceeded"
            ELSE "validation_failure")
      /\ ~(lastWire.kind = "request" /\ lastWire.req = cur[s].id)

\* C1's case: the limiter has rejected a request while earlier ones went out
\* on the I-side.
C1_Witness ==
  /\ cur["s1"].path = "rate"
  /\ Len(rl.global_requests) >= rl.global_limit
  /\ lastOut["s1"].errorType = "rate_limit_exceeded"
  /\ lastWire.kind = "request"

\* C11: verify_message rejects every frame whose timestamp is more than
\* MaxAge (300) seconds older than the time of the call.
C11_ExpiredRejected ==
  (/\ vLast.n > 0
   /\ vLast.frame.shape = "dict"
   /\ vLast.at - vLast.frame.meta.timestamp > MaxAge) => ~vLast.ok

\* C11's case: a validly signed frame with all its fields, never seen before,
\* has been rejected as expired.
C11_Witness ==
  /\ vLast.n > 0
  /\ vLast.frame.shape = "dict"
  /\ vLast.frame.meta.signature
       = hmac_digest(vLast.frame.body, vLast.frame.meta.message_id,
                     vLast.frame.meta.timestamp)
  /\ vLast.at - vLast.frame.meta.timestamp > MaxAge
  /\ vLast.before = <<>>
  /\ vLast.reason = "Message expired"

\* C12 as the specification states it: once as many well-formed requests of
\* a tool as its configured limit have come in within the window, the next
\* request of that tool is answered with rate_limit_exceeded, recoverable,
\* with the remaining-quota fields.
C12_CategoryLimitAnswered ==
  \A s \in Sessions :
    (/\ cur[s].shape = "ok"
     /\ cur[s].name \in DOMAIN rl.tool_limits
     /\ received[cur[s].name] > rl.tool_limits[cur[s].name]) =>
      /\ lastOut[s].kind = "error"
      /\ lastOut[s].errorType = "rate_limit_exceeded"
      /\ lastOut[s].recoverable
      /\ lastOut[s].quota # NoQuota

\* C13 as the specification states it: when the answer of the peer that the
\* bridge hands to a session is an error message, the frame the session gets
\* is an error frame, not a result.
C13_PeerErrorSurfaced ==
  \A s \in Sessions :
    lastOut[s].result = "error_content" => lastOut[s].kind = "error"

C15_InvalidGetsValidationFailure ==
  \A s \in Sessions :
    cur[s].shape \in {"not_dict", "no_name", "injection"} =>
      /\ lastOut[s].kind = "error"
      /\ lastOut[s].for = cur[s].id
      /\ lastOut[s].errorType = "validation_failure"

\* C16: every step that brings the I-side link into the connected state (the
\* flag becomes true, or a new connection object is installed) leaves
\* reconnect_attempts at 0.
C16_ConnectResetsAttempts ==
  [][(/\ tnos_connected'
      /\ (~tnos_connected \/ tnos_ws_connection' # tnos_ws_connection)) =>
       reconnect_attempts' = 0]_vars

\* C16's case: the link is connected with reconnect_attempts 0 after a
\* connect that had raised (and had counted an attempt).
C16_Witness ==
  /\ tnos_connected
  /\ tnos_ws_connection \in connOpen
  /\ last_error = "exception"
  /\ reconnect_attempts = 0

\* C17: the negotiation frame carries the supported versions and, as the
\* preferred one, the version current when it is sent; when the answer read
\* carries no selected version the current version stays, otherwise the
\* selected version becomes the current version; the current version changes
\* in no other step, and every request and response translated in a step
\* carries the version current at that time.
C17_VersionNegotiation ==
  [][/\ (tnos_ws_connection' # tnos_ws_connection /\ tnos_ws_connection' # 0) =>
          /\ lastWire'.kind = "version_negotiation" =>
               /\ lastWire'.supported = SUPPORTED_VERSIONS
               /\ lastWire'.preferred = current_version
          /\ current_version' = (IF server_version' = NoVersion
                                 THEN current_version ELSE server_version')
     /\ tnos_ws_connection' = tnos_ws_connection =>
          current_version' = current_version
     /\ (lastWire' # lastWire /\ lastWire'.kind = "request") =>
          lastWire'.mcp_version = current_version
     /\ \A s \in Sessions :
          (lastOut'[s] # lastOut[s] /\ lastOut'[s].kind = "response") =>
            lastOut'[s].mcp_version = current_version']_vars

\* C17's case: the peer selected another version than the preferred one, and
\* a request translated afterwards went out with the selected version.
C17_Witness ==
  /\ server_version = "2.0"
  /\ current_version = "2.0"
  /\ get_latest_version # "2.0"
  /\ lastWire.kind = "request"
  /\ lastWire.mcp_version = "2.0"

\* C18: a process whose probe finds the listen port in use refuses to start
\* and is never bound to it, and at no time are two programs bound to the
\* listen port.
C18_NoDoubleBind ==
  [][/\ Cardinality(listeners') + (IF otherListener' THEN 1 ELSE 0) <= 1
     /\ \A i \in Instances :
          (/\ startPc[i] = "init"
           /\ startPc'[i] # "init"
           /\ (listeners # {} \/ otherListener)) =>
            startPc'[i] = "refused"
     /\ \A i \in Instances :
          startPc'[i] \in {"refused", "failed"} => i \notin listeners']_vars

\* C18's case: one process serves on the port and another one, started
\* meanwhile, has refused to start.
C18_Witness ==
  \E i, j \in Instances :
    /\ i \in listeners
    /\ startPc[i] = "serving"
    /\ startPc[j] = "refused"

\* C19 as the specification states it: every message that crosses the bridge
\* has a non-empty who, what and when in its context, the request sent to the
\* I-side and the response delivered to the session alike.  The request's
\* context is filled by the bridge; the response's is copied from whatever
\* the peer sent.
C19_WhoWhatWhenNonEmpty ==
  /\ tpc # "idle" =>
       /\ tnos_message.context.who # ""
       /\ tnos_message.context.what # ""
       /\ tnos_message.context.when # NoTimestamp
  /\ tpc = "delivered" =>
       /\ github_response.metadata.tnos_context.who # ""
       /\ github_response.metadata.tnos_context.what # ""
       /\ github_response.metadata.tnos_context.when # NoTimestamp

\* C20 as the specification states it: a well-formed request translated to
\* the internal message and translated back equals itself on the fields name,
\* id and parameters (a field the request lacks is lacking afterwards).
C20_RoundTrip ==
  tpc = "round_trip" =>
    \A k \in {"name", "id", "parameters"} :
      get(github_response, k) = get(github_request, k)

\* C21: the content of the I-side's message becomes the result of the
\* response delivered to the session: a textual content that parses is
\* delivered as the parsed value, a textual content that does not parse is
\* delivered wrapped as {content: <the string>}, and any other content is
\* delivered unchanged.
C21_ContentBecomesResult ==
  tpc = "delivered" =>
    LET content == tnos_response.content
        result == github_response.result
    IN  /\ "str" \notin DOMAIN content => result = content
        /\ "str" \in DOMAIN content =>
             IF content.str[1] = "json"
             THEN result = content.str[2]
             ELSE /\ DOMAIN result = {"content"}
                  /\ result.content = content

\* A text that is no JSON has been delivered wrapped, and a text that is JSON
\* can be delivered parsed.
C21_Witness ==
  /\ tpc = "delivered"
  /\ "str" \in DOMAIN tnos_response.content
  /\ tnos_response.content.str = <<"text", "not json">>
  /\ github_response.result = [content |-> tnos_response.content]

C23_ContextsImmutable ==
  (srvLast.n > 0 /\ srvLast.message_context # 0) =>
    /\ srvLast.after = srvLast.before
    /\ srvLast.stored = srvLast.before
    /\ srvLast.response_context # srvLast.message_context

\* C24 as the specification states it: compression round-trips.  For every
\* value d, decompress of what compress(d) returned succeeds and its data
\* equals d.
C24_CompressionRoundTrips ==
  mc_pc = "decompressed" =>
    /\ mc_decompressed.success
    /\ mc_decompressed.data = <<mc_data>>

\* C25: every message a session sends gets exactly one reply frame, a response
\* or an error, while the session's socket stays open.  The step that reads a
\* message either sends its reply or leaves the handler waiting for the
\* I-side with nothing sent; the wait ends, and the step that ends it sends
\* the reply to that message; no other step sends the session a frame (but
\* the connection_failure that ends a session before its first message).
C25_ExactlyOneReply ==
  /\ [][\A s \in Sessions :
          /\ (nextReq' # nextReq /\ cur'[s].id = nextReq') =>
               /\ pc[s] = "loop"
               /\ \/ /\ pc'[s] = "loop"
                     /\ lastOut'[s].for = nextReq'
                     /\ lastOut'[s].kind \in {"response", "error"}
                  \/ /\ pc'[s] = "wait"
                     /\ lastOut'[s] = lastOut[s]
          /\ (pc[s] = "wait" /\ pc'[s] # "wait") =>
               /\ pc'[s] = "loop"
               /\ lastOut'[s].for = cur[s].id
               /\ lastOut'[s].kind \in {"response", "error"}
               /\ lastOut[s].for # cur[s].id
          /\ lastOut'[s] # lastOut[s] =>
               \/ pc[s] = "new"
               \/ pc[s] = "wait"
               \/ nextReq' # nextReq /\ cur'[s].id = nextReq']_vars
  /\ \A s \in Sessions : (pc[s] = "wait") ~> (pc[s] = "loop")

\* The second message of a session has been answered after a wait for the
\* I-side, the first one at once.
C25_Witness ==
  /\ nextReq = 2
  /\ pc["s1"] = "loop"
  /\ cur["s1"].id = 2
  /\ cur["s1"].path = "sent"
  /\ lastOut["s1"].for = 2

\* C26 as the specification states it: while a session is inside its request
\* loop (it has passed the connect step and has not ended) the bridge holds
\* an I-side connection object: the teardown of the last other session never
\* sets tnos_ws_connection to None under a session that joined meanwhile.
C26_ConnectionKept ==
  \A s \in Sessions :
    pc[s] \in {"loop", "wait"} => tnos_ws_connection # 0

\* C27: within one session at most one request is in flight to the I-side and
\* replies come in the order of the requests.  A session's message is read
\* only while its handler waits for no response, and only after the reply to
\* the session's previous message has been sent; every frame sent to a
\* session in its message loop is the reply to the message it read last.
C27_OneInFlightInOrder ==
  [][\A s \in Sessions :
       /\ (nextReq' # nextReq /\ cur'[s].id = nextReq') =>
            /\ pc[s] = "loop"
            /\ cur'[s].id > cur[s].id
            /\ cur[s].id # 0 => lastOut[s].for = cur[s].id
       /\ (lastOut'[s] # lastOut[s] /\ pc[s] # "new") =>
            /\ lastOut'[s].for = cur'[s].id
            /\ lastOut'[s].for >= lastOut[s].for]_vars

\* A session has sent its second request to the I-side after its first was
\* answered, and waits for the response.
C27_Witness ==
  /\ cur["s1"].id = 2
  /\ pc["s1"] = "wait"
  /\ lastOut["s1"].for = 1
  /\ lastOut["s1"].kind = "response"
  /\ cur["s2"].id = 0

C29_WithinLimits ==
  LET used(list) ==
        Cardinality({i \in 1..Len(list) : now - list[i] < Window})
  IN  /\ used(rl.global_requests) <= rl.global_limit
      /\ \A t \in DOMAIN rl.tool_limits :
           t \in DOMAIN rl.tool_requests =>
             used(rl.tool_requests[t]) <= rl.tool_limits[t]

\* C30: a rejected request consumes no rate-limit quota.  A message rejected
\* as unparsable, by validation or by the tool lookup leaves the rate limiter
\* as it was; a request answered rate_limit_exceeded adds no entry to the
\* global record or to the record of any tool (the records only lose the
\* entries that left the window).
C30_RejectedTakesNoQuota ==
  [][\A s \in Sessions :
       (nextReq' = nextReq + 1 /\ cur'[s].id = nextReq') =>
         LET noNew(new, old) ==
               /\ Len(new) <= Len(old)
               /\ \A i \in 1..Len(new) : \E j \in 1..Len(old) : old[j] = new[i]
         IN  /\ ( /\ lastOut'[s].for = cur'[s].id
                   /\ lastOut'[s].errorType
                        \in {"json_parsing_failure", "validation_failure",
                             "unsupported_tool"} )
                => rl' = rl
             /\ (cur'[s].shape # "ok" \/ Unsupported(cur'[s].name))
                => rl' = rl
             /\ ( /\ lastOut'[s].for = cur'[s].id
                   /\ lastOut'[s].errorType = "rate_limit_exceeded" ) =>
                  /\ noNew(rl'.global_requests, rl.global_requests)
                  /\ DOMAIN rl'.tool_requests = DOMAIN rl.tool_requests
                  /\ \A t \in DOMAIN rl.tool_requests :
                       noNew(rl'.tool_requests[t], rl.tool_requests[t])]_vars

\* The session's request has been answered rate_limit_exceeded while the
\* global record holds as many admitted requests as the limit allows.
C30_Witness ==
  /\ cur["s1"].path = "rate"
  /\ lastOut["s1"].errorType = "rate_limit_exceeded"
  /\ lastOut["s1"].for = cur["s1"].id
  /\ Len(rl.global_requests) = rl.global_limit

\* C31: after any sequence of verify_message calls the replay table holds at
\* most its capacity of message ids (1000 in the code, ReplayCap here) and no
\* id twice; a call that records an id in a full table drops the oldest
\* recorded id and appends the new one.
C31_ReplayTableBounded ==
  /\ [](/\ Len(message_ids) <= ReplayCap
        /\ \A i, j \in 1..Len(message_ids) :
             message_ids[i] = message_ids[j] => i = j)
  /\ [][(message_ids' # message_ids) =>
          /\ vLast'.n = vLast.n + 1
          /\ message_ids' =
               IF Len(message_ids) = ReplayCap
               THEN Append(Tail(message_ids), vLast'.frame.meta.message_id)
               ELSE Append(message_ids, vLast'.frame.meta.message_id)]_vars

\* The table was full and the last call recorded a new id: the oldest id is
\* gone, the others moved up.
C31_Witness ==
  /\ vLast.n > 0
  /\ Len(vLast.before) = ReplayCap
  /\ Len(message_ids) = ReplayCap
  /\ message_ids # vLast.before
  /\ ~deque_has(message_ids, Head(vLast.before))
  /\ message_ids[ReplayCap] = vLast.frame.meta.message_id

\* C32 as the specification states it: a frame verify_message rejects leaves
\* the replay table unchanged, and a frame rejected for an invalid signature
\* does not make the next call reject a correctly signed, fresh frame that
\* carries the same message id.
C32_RejectionLeavesTable ==
  [][vLast'.n = vLast.n + 1 =>
       /\ ~vLast'.ok => message_ids' = message_ids
       /\ ( /\ vLast.n > 0
            /\ vLast.reason = "Invalid signature"
            /\ vLast'.frame.shape = "dict"
            /\ vLast'.frame.meta.message_id = vLast.frame.meta.message_id
            /\ vLast'.frame.meta.signature
                 = hmac_digest(vLast'.frame.body,
                               vLast'.frame.meta.message_id,
                               vLast'.frame.meta.timestamp)
            /\ vLast'.at - vLast'.frame.meta.timestamp <= MaxAge )
          => vLast'.ok]_vars

\* C33 as the specification states it: for every dictionary m, with or
\* without a meta block and also when m was signed before, the frame
\* sign_message(m) returns is accepted by verify_message of the same validator
\* when it is presented for the first time and within MaxAge seconds.
C33_SignVerifyRoundTrip ==
  [][( /\ sg_signed # <<>>
       /\ sg_signed' = <<>>
       /\ vLast'.at - sg_signed[1].meta.timestamp <= MaxAge
       /\ ~deque_has(message_ids, sg_signed[1].meta.message_id) )
     => vLast'.ok]_vars

\* C34 as the specification states it: in every reachable state of the bridge
\* connection_state["tnos"]["connected"] is True exactly when
\* tnos_ws_connection is not None.
C34_ConnectedIffSet ==
  tnos_connected <=> tnos_ws_connection # 0

\* C35 as the specification states it: every call of connect_to_tnos_mcp that
\* returns False (at the start of a session, or as the reconnect of a
\* request) adds exactly one to reconnect_attempts and records the failure in
\* last_error.
C35_FailedConnectCounted ==
  [][\A s \in Sessions :
       ( \/ pc[s] = "new" /\ pc'[s] = "done"
         \/ /\ nextReq' = nextReq + 1
            /\ cur'[s].id = nextReq'
            /\ cur'[s].path = "reconnect_failed" )
       => /\ reconnect_attempts' = reconnect_attempts + 1
          /\ last_error' \in {"not_available", "exception"}]_vars

\* C36 as the specification states it: after any outcome of the version
\* negotiation the bridge's current_version is one of its supported versions.
C36_CurrentVersionSupported ==
  current_version \in SUPPORTED_VERSIONS

\* C37 as the specification states it: the server selects the highest
\* version both sides support when there is one; when there is none it
\* selects the client's preferred version if the server supports it and the
\* server's highest version otherwise; the selected version is always one the
\* server supports; and VersionManager.negotiate_version selects the same
\* version for the same list of client versions.
C37_NegotiationsAgree ==
  vnLast.n > 0 =>
    LET supported == {server_supported_versions[i] :
                        i \in 1..Len(server_supported_versions)}
        index(v) == CHOOSE i \in 1..Len(server_supported_versions) :
                      server_supported_versions[i] = v
        common == vnLast.client_versions \cap supported
        selected == vnLast.selected_version
    IN  /\ common # {} =>
             /\ selected \in common
             /\ \A v \in common : index(v) <= index(selected)
        /\ (common = {} /\ vnLast.preferred_version # <<>>) =>
             selected = IF vnLast.preferred_version[1] \in supported
                        THEN vnLast.preferred_version[1]
                        ELSE server_supported_versions[
                               Len(server_supported_versions)]
        /\ selected \in supported
        /\ vnLast.negotiate_version = selected

C2_ResponseToOriginator ==
  \A s \in Sessions :
    lastOut[s].kind = "response" =>
      \A t \in Sessions \ {s} :
        cur[t].id = 0 \/ cur[t].id # lastOut[s].re

\* C3 as the specification states it: a request received while the I-side
\* connection is down (the send finds it closed and the reconnect fails, or
\* the bridge holds no connection) is acknowledged with a queued
\* acknowledgement.
C3_QueuedWhileDisconnected ==
  \A s \in Sessions :
    cur[s].path \in {"reconnect_failed", "no_connection"} =>
      lastOut[s].kind = "queued"

\* C4 as the specification states it: verify_message accepts no frame whose
\* message id one of the last ReplayCap inbound frames carried.
C4_Original ==
  [][(vLast'.n = vLast.n + 1 /\ vLast'.ok) =>
       ~deque_has(inboundIds, FrameId(vLast'.frame))]_vars

\* C4, amended: the replay table holds the ids of the last ReplayCap frames
\* that came with all their meta fields, not expired and with an id not yet
\* in the table.  verify_message accepts no frame whose id is in the table
\* and rejects a complete, fresh one of them as a replay; it accepts a
\* validly signed, fresh frame whose id is not in the table and records the
\* id; so when a signed frame accepted by one call is presented again to the
\* next call, the second presentation is rejected, as a replay while the
\* frame is fresh and as expired afterwards.
C4_Amended ==
  [][vLast'.n = vLast.n + 1 =>
       LET f == vLast'.frame
           complete == f.shape = "dict" /\ f.meta.signature # NoSignature
           fresh == vLast'.at - f.meta.timestamp <= MaxAge
           known == \E i \in 1..Len(message_ids) :
                      message_ids[i] = f.meta.message_id
           signed == f.meta.signature
                       = hmac_digest(f.body, f.meta.message_id,
                                     f.meta.timestamp)
       IN  /\ vLast'.ok => complete /\ fresh /\ ~known /\ signed
           /\ (complete /\ fresh /\ known) =>
                (~vLast'.ok /\ vLast'.reason = "Message replay detected")
           /\ (complete /\ fresh /\ ~known /\ signed) =>
                (/\ vLast'.ok
                 /\ message_ids' # <<>>
                 /\ message_ids'[Len(message_ids')] = f.meta.message_id)
           /\ (vLast.n > 0 /\ vLast.ok /\ f = vLast.frame) =>
                (/\ ~vLast'.ok
                 /\ vLast'.reason = (IF fresh THEN "Message replay detected"
                                     ELSE "Message expired"))]_vars

\* C4's case: a validly signed frame has been accepted and the next call,
\* given the same frame, has rejected it as a replay.
C4_Witness ==
  /\ vLast.n >= 2
  /\ vLast.frame.shape = "dict"
  /\ vLast.frame.meta.signature
       = hmac_digest(vLast.frame.body, vLast.frame.meta.message_id,
                     vLast.frame.meta.timestamp)
  /\ vLast.reason = "Message replay detected"
  /\ vLast.before # <<>>
  /\ vLast.before[Len(vLast.before)] = vLast.frame.meta.message_id

\* C5 as the specification states it: the call admits the request exactly
\* when the global bucket and the bucket of its tool both have capacity in the
\* window, and an admitted request takes one unit from each.
C5_Original ==
  rlLast.n > 0 =>
    LET b == rlLast.before
        t == rlLast.tool
        used(list) ==
          Cardinality({i \in 1..Len(list) : rlLast.at - list[i] < Window})
        globalFree == used(b.global_requests) < b.global_limit
        toolFree == /\ t \in DOMAIN b.tool_requests
                    /\ used(b.tool_requests[t]) < b.tool_limits[t]
    IN  /\ rlLast.allowed <=> (globalFree /\ toolFree)
        /\ rlLast.allowed =>
             /\ Len(rl.global_requests) = used(b.global_requests) + 1
             /\ t \in DOMAIN b.tool_requests
             /\ Len(rl.tool_requests[t]) = used(b.tool_requests[t]) + 1

\* C5, amended: a tool has a bucket only when a limit is configured for it.
\* For a tool with a bucket the call admits exactly when the global bucket and
\* that bucket both have capacity in the window, and an admitted request takes
\* one unit from each; for a tool without one it admits exactly when the
\* global bucket has capacity, and an admitted request takes one unit from
\* the global bucket alone.
C5_Amended ==
  rlLast.n > 0 =>
    LET b == rlLast.before
        t == rlLast.tool
        used(list) ==
          Cardinality({i \in 1..Len(list) : rlLast.at - list[i] < Window})
        globalFree == used(b.global_requests) < b.global_limit
    IN  IF t \in DOMAIN b.tool_requests
        THEN /\ rlLast.allowed <=>
                  (globalFree
                   /\ used(b.tool_requests[t]) < b.tool_limits[t])
             /\ rlLast.allowed =>
                  /\ Len(rl.global_requests) = used(b.global_requests) + 1
                  /\ Len(rl.tool_requests[t])
                       = used(b.tool_requests[t]) + 1
        ELSE /\ rlLast.allowed <=> globalFree
             /\ rlLast.allowed =>
                  Len(rl.global_requests) = used(b.global_requests) + 1
             /\ \A u \in DOMAIN b.tool_requests :
                  Len(rl.tool_requests[u]) <= Len(b.tool_requests[u])

\* C5's case: the call has denied a request because the bucket of its tool
\* was full while the global bucket had capacity.
C5_Witness ==
  /\ rlLast.n > 0
  /\ ~rlLast.allowed
  /\ rlLast.tool \in DOMAIN rlLast.before.tool_requests
  /\ Len(rlLast.before.tool_requests[rlLast.tool])
       >= rlLast.before.tool_limits[rlLast.tool]
  /\ Len(rlLast.before.global_requests) < rlLast.before.global_limit
  /\ rlLast.before.global_requests # <<>>

\* C6 as the specification states it: no response delivered to a session is
\* the peer's answer to a request that had timed out before the answer came.
C6_LateResponseDropped ==
  \A s \in Sessions : lastOut[s].kind = "response" => ~lastOut[s].late

\* C7 as the specification states it: when the handler has finished with a
\* forwarded request that the peer has not answered, on a connection that
\* stayed open, what the session got for it is the timeout error, recoverable.
C7_TimeoutDelivered ==
  \A s \in Sessions :
    (/\ pc[s] = "loop"
     /\ cur[s].path \in {"sent", "resent"}
     /\ cur[s].id \in peerPending
     /\ cur[s].conn \in connOpen) =>
      lastOut[s] = ErrorFrame("timeout", TRUE, cur[s].id)

\* C8 as the specification states it: every well-formed request whose name is
\* no key of tool_mapping is answered with unsupported_tool and the known
\* names, and no frame whose what is unknown_operation is sent on the I-side.
C8_Original ==
  /\ \A s \in Sessions :
       (cur[s].shape = "ok" /\ cur[s].name \notin DOMAIN tool_mapping) =>
         lastOut[s] = UnsupportedFrame(cur[s].id)
  /\ lastWire.what # "unknown_operation"

\* C8, amended: every well-formed request whose name is no key of
\* tool_mapping and does not start with tnos_ is answered with
\* unsupported_tool and tool_mapping's keys and is not sent on the I-side; a
\* frame whose what is unknown_operation is sent only for a name that starts
\* with tnos_.
C8_Amended ==
  /\ \A s \in Sessions :
       (/\ cur[s].shape = "ok"
        /\ cur[s].name \notin DOMAIN tool_mapping
        /\ ~StartsWithTnos(cur[s].name)) =>
         /\ lastOut[s].kind = "error"
         /\ lastOut[s].errorType = "unsupported_tool"
         /\ lastOut[s].for = cur[s].id
         /\ lastOut[s].suggestions = DOMAIN tool_mapping
         /\ ~(lastWire.kind = "request" /\ lastWire.req = cur[s].id)
  /\ \A s \in Sessions :
       (/\ lastWire.kind = "request"
        /\ lastWire.req = cur[s].id
        /\ lastWire.what = "unknown_operation") =>
         StartsWithTnos(cur[s].name)

\* C8's case: a request with an unknown name has been rejected after an
\* earlier request went out on the I-side.
C8_Witness ==
  /\ cur["s1"].name = "bogus_tool"
  /\ lastOut["s1"].errorType = "unsupported_tool"
  /\ lastWire.kind = "request"

\* C9 as the specification states it: every frame sent, on the I-side or to
\* a session, has a message id, a timestamp and a signature in its meta
\* block.
C9_FramesSigned ==
  /\ lastWire.kind # "none" =>
       /\ lastWire.meta.message_id # NoId
       /\ lastWire.meta.timestamp # NoTimestamp
       /\ lastWire.meta.signature # NoSignature
  /\ \A s \in Sessions :
       lastOut[s].kind # "none" =>
         /\ lastOut[s].meta.message_id # NoId
         /\ lastOut[s].meta.timestamp # NoTimestamp
         /\ lastOut[s].meta.signature # NoSignature

\* C10 as the specification states it: a request frame is sent on a
\* connection only after the handshake frames (the init and the answer to the
\* peer's challenge) went out on it.
C10_HandshakeBeforePayload ==
  lastWire.kind = "request" =>
    {"qhp_handshake", "qhp_handshake_ack"} \subseteq wireKinds

====
